---------------------------- MODULE Spec2Model ----------------------------
(***************************************************************************)
(* Model of the GeradorMIPS compiler middle end.                           *)
(*                                                                         *)
(* The semantic analyser (src/AnalisadorSemantico.py) is a recursive walk  *)
(* over the AST of src/AST.py.  The AST is a value (nested records, one    *)
(* record per dataclass, the field names of the dataclasses; the source    *)
(* position fields linha/coluna are carried unchanged into the error       *)
(* records by the code and are left out here).  The recursion of           *)
(* visitar() is the explicit stack `pilha`: visiting a node that has       *)
(* child statements pushes the children, followed by the code that the     *)
(* Python handler runs after them (sair_escopo, ...).  inferir_tipo() only *)
(* reads the tables and appends errors, so it is the recursive operator    *)
(* InferirTipo, returning the inferred type and the errors it appends.     *)
(***************************************************************************)
EXTENDS Integers, Sequences, FiniteSets, TLC

VARIABLES
    ast,              \* the Programa handed to analisar (None when parsing failed)
    erros,            \* AnalisadorSemantico.erros
    tabela_simbolos,  \* AnalisadorSemantico.tabela_simbolos: stack of frames
    funcoes,          \* AnalisadorSemantico.funcoes
    pilha,            \* pending work of the running visitar() recursion
    chamadas,         \* number of analisar() calls made on this instance
    codigo,           \* GeradorCodigoMIPS.codigo: the lines emitted
    temp_count,       \* GeradorCodigoMIPS.temp_count
    label_count,      \* GeradorCodigoMIPS.label_count
    var_map,          \* GeradorCodigoMIPS.var_map
    func_map,         \* GeradorCodigoMIPS.func_map
    pilha_gerador,    \* pending work of the running GeradorCodigoMIPS.visitar()
    estado_gerador,   \* "novo", "gerando", "concluido", or "falhou" (KeyError)
    etapa,            \* the stage the driver is in
    erros_sintaticos  \* AnalisadorSintatico.erros

analisador == <<erros, tabela_simbolos, funcoes, pilha, chamadas>>
gerador == <<codigo, temp_count, label_count, var_map, func_map, pilha_gerador,
             estado_gerador>>
principal == <<etapa, erros_sintaticos>>

vars == <<ast, analisador, gerador, principal>>

-----------------------------------------------------------------------------
(* Bounds of the model *)

\* longest statement list of a block of a generated program
MaxCmds == 2
\* most arguments of a call and most parameters of a function
MaxArgs == 2
\* most analisar() calls made on one analyser instance
MaxAnalises == 2

-----------------------------------------------------------------------------
(* src/AST.py: one constructor per dataclass *)

\* Python's None, for an absent node
Nulo == [classe |-> "None"]

\* Python's None, for an unknown type (Optional[Tipo])
None == "None"

Tipos == {"inteiro", "flutuante", "logico", "cadeia"}

Programa(comandos) == [classe |-> "Programa", comandos |-> comandos]

\* tamanho_array: Optional[int], <<>> for None and <<n>> for the length n
DeclaracaoVariavel(tipo, nome, tamanho_array, valor_inicial) ==
    [classe |-> "DeclaracaoVariavel", tipo |-> tipo, nome |-> nome,
     tamanho_array |-> tamanho_array, valor_inicial |-> valor_inicial]

DeclaracaoFuncao(tipo_retorno, nome, parametros, corpo) ==
    [classe |-> "DeclaracaoFuncao", tipo_retorno |-> tipo_retorno, nome |-> nome,
     parametros |-> parametros, corpo |-> corpo]

Parametro(tipo, nome) == [classe |-> "Parametro", tipo |-> tipo, nome |-> nome]

Atribuicao(nome, expressao) ==
    [classe |-> "Atribuicao", nome |-> nome, expressao |-> expressao]

\* bloco_falso: Optional[List].  Both readers test it with `if no.bloco_falso:`,
\* which takes None and the empty list alike, so None is kept as <<>>
ComandoSe(condicao, bloco_verdadeiro, bloco_falso) ==
    [classe |-> "ComandoSe", condicao |-> condicao,
     bloco_verdadeiro |-> bloco_verdadeiro, bloco_falso |-> bloco_falso]

ComandoEnquanto(condicao, bloco) ==
    [classe |-> "ComandoEnquanto", condicao |-> condicao, bloco |-> bloco]

ComandoPara(inicializacao, condicao, incremento, bloco) ==
    [classe |-> "ComandoPara", inicializacao |-> inicializacao,
     condicao |-> condicao, incremento |-> incremento, bloco |-> bloco]

ComandoEscreva(expressao) == [classe |-> "ComandoEscreva", expressao |-> expressao]

ComandoLeia(variavel) == [classe |-> "ComandoLeia", variavel |-> variavel]

ChamadaFuncao(nome, argumentos) ==
    [classe |-> "ChamadaFuncao", nome |-> nome, argumentos |-> argumentos]

ExpressaoBinaria(esquerda, operador, direita) ==
    [classe |-> "ExpressaoBinaria", esquerda |-> esquerda,
     operador |-> operador, direita |-> direita]

ExpressaoUnaria(operador, expressao) ==
    [classe |-> "ExpressaoUnaria", operador |-> operador, expressao |-> expressao]

\* valor is kept as the lexeme of the literal
Literal(valor, tipo) == [classe |-> "Literal", valor |-> valor, tipo |-> tipo]

Identificador(nome) == [classe |-> "Identificador", nome |-> nome]

-----------------------------------------------------------------------------
(* src/AnalisadorSemantico.py: the error records.  An ErroSemantico is its   *)
(* message, kept as the message's template (msg) and the values the f-string *)
(* interpolates.                                                             *)

ErroVariavelJaDeclarada(nome) ==
    [msg |-> "Variável '{nome}' já declarada neste escopo", nome |-> nome]

ErroVariavelNaoDeclarada(nome) ==
    [msg |-> "Variável '{nome}' não declarada", nome |-> nome]

ErroFuncaoJaDeclarada(nome) ==
    [msg |-> "Função '{nome}' já declarada", nome |-> nome]

ErroFuncaoNaoDeclarada(nome) ==
    [msg |-> "Função '{nome}' não declarada", nome |-> nome]

ErroOperandosNumericos(op) ==
    [msg |-> "Operador '{op}' requer operandos numéricos", op |-> op]

ErroComparacao(op, esq_tipo, dir_tipo) ==
    [msg |-> "Comparação '{op}' entre '{esq_tipo}' e '{dir_tipo}' não é permitida",
     op |-> op, esq_tipo |-> esq_tipo, dir_tipo |-> dir_tipo]

ErroOperadorLogico(op, esq_tipo, dir_tipo) ==
    [msg |-> "Operador lógico '{op}' requer operandos booleanos",
     op |-> op, esq_tipo |-> esq_tipo, dir_tipo |-> dir_tipo]

ErroConcatenacao(esq_tipo, dir_tipo) ==
    [msg |-> "Concatenação '&&' requer strings",
     esq_tipo |-> esq_tipo, dir_tipo |-> dir_tipo]

ErroNegacao(expr_tipo) ==
    [msg |-> "Negação '!' requer booleano", expr_tipo |-> expr_tipo]

ErroMenosUnario(expr_tipo) ==
    [msg |-> "Menos unário '-' requer número", expr_tipo |-> expr_tipo]

ErroIncremento(op, expr_tipo) ==
    [msg |-> "Operador '{op}' requer inteiro", op |-> op, expr_tipo |-> expr_tipo]

ErroNumeroArgumentos(nome, esperados, recebidos) ==
    [msg |-> "Função '{nome}' espera {n} argumentos, mas recebeu {m}",
     nome |-> nome, esperados |-> esperados, recebidos |-> recebidos]

ErroArgumento(i, nome, tipo_param, arg_tipo) ==
    [msg |-> "Argumento {i} de '{nome}' deve ser '{tipo_param}', mas é '{arg_tipo}'",
     i |-> i, nome |-> nome, tipo_param |-> tipo_param, arg_tipo |-> arg_tipo]

ErroInicializacao(nome, tipo, init_tipo) ==
    [msg |-> "Inicialização de '{nome}' requer '{tipo}', mas é '{init_tipo}'",
     nome |-> nome, tipo |-> tipo, init_tipo |-> init_tipo]

ErroAtribuicao(nome, var_tipo, expr_tipo) ==
    [msg |-> "Atribuição a '{nome}' requer '{var_tipo}', mas é '{expr_tipo}'",
     nome |-> nome, var_tipo |-> var_tipo, expr_tipo |-> expr_tipo]

ErroCondicao(comando) ==
    [msg |-> "Condição de '{comando}' deve ser lógica", comando |-> comando]

-----------------------------------------------------------------------------
(* src/AnalisadorSemantico.py: the symbol tables.  A frame is a dict from a  *)
(* name to (tipo, é_array): a function whose domain is the declared names.   *)

EscopoVazio == <<>>

\* the frames of the stack that hold nome, innermost last
EscoposCom(tabela, nome) ==
    {i \in 1..Len(tabela) : nome \in DOMAIN tabela[i]}

EntrarEscopo(tabela) == Append(tabela, EscopoVazio)

\* sair_escopo that leaves the frame on the stack
SairEscopoSemPop(tabela) == tabela

SairEscopo(tabela) ==
    IF Len(tabela) > 1 THEN SubSeq(tabela, 1, Len(tabela) - 1) ELSE tabela

\* declarar_variavel refusing a name that any frame of the stack holds
DeclararVariavelQualquerEscopo(tabela, nome, tipo, e_array) ==
    LET escopo_atual == tabela[Len(tabela)]
    IN  IF \E i \in 1..Len(tabela) : nome \in DOMAIN tabela[i]
        THEN [tabela |-> tabela, erros |-> <<ErroVariavelJaDeclarada(nome)>>]
        ELSE [tabela |-> [tabela EXCEPT ![Len(tabela)] =
                             (nome :> [tipo |-> tipo, e_array |-> e_array]) @@ escopo_atual],
              erros |-> <<>>]

\* declarar_variavel: the new table and the errors appended
DeclararVariavel(tabela, nome, tipo, e_array) ==
    LET escopo_atual == tabela[Len(tabela)]
    IN  IF nome \in DOMAIN escopo_atual
        THEN [tabela |-> tabela, erros |-> <<ErroVariavelJaDeclarada(nome)>>]
        ELSE [tabela |-> [tabela EXCEPT ![Len(tabela)] =
                             (nome :> [tipo |-> tipo, e_array |-> e_array]) @@ escopo_atual],
              erros |-> <<>>]

\* buscar_variavel: the entry found (Nulo for None) and the errors appended
BuscarVariavel(tabela, nome) ==
    LET com == EscoposCom(tabela, nome)
    IN  IF com # {}
        THEN [info |-> tabela[CHOOSE i \in com : \A j \in com : j <= i][nome],
              erros |-> <<>>]
        ELSE [info |-> Nulo, erros |-> <<ErroVariavelNaoDeclarada(nome)>>]

\* declarar_funcao that reports the second declaration and keeps its signature
DeclararFuncaoSubstitui(funcs, nome, tipo_retorno, params) ==
    LET nova == nome :> [tipo_retorno |-> tipo_retorno,
                         tipos_params |-> [i \in 1..Len(params) |-> params[i].tipo]]
    IN  IF nome \in DOMAIN funcs
        THEN [funcoes |-> nova @@ funcs, erros |-> <<ErroFuncaoJaDeclarada(nome)>>]
        ELSE [funcoes |-> nova @@ funcs, erros |-> <<>>]

\* declarar_funcao: the new function table and the errors appended;
\* params is the list of Parametro nodes
DeclararFuncao(funcs, nome, tipo_retorno, params) ==
    IF nome \in DOMAIN funcs
    THEN [funcoes |-> funcs, erros |-> <<ErroFuncaoJaDeclarada(nome)>>]
    ELSE [funcoes |-> (nome :> [tipo_retorno |-> tipo_retorno,
                                tipos_params |-> [i \in 1..Len(params) |-> params[i].tipo]])
                      @@ funcs,
          erros |-> <<>>]

\* buscar_funcao that returns None without recording the error
BuscarFuncaoSemErro(funcs, nome) ==
    IF nome \in DOMAIN funcs
    THEN [info |-> funcs[nome], erros |-> <<>>]
    ELSE [info |-> Nulo, erros |-> <<>>]

\* buscar_funcao: the signature found (Nulo for None) and the errors appended
BuscarFuncao(funcs, nome) ==
    IF nome \in DOMAIN funcs
    THEN [info |-> funcs[nome], erros |-> <<>>]
    ELSE [info |-> Nulo, erros |-> <<ErroFuncaoNaoDeclarada(nome)>>]

-----------------------------------------------------------------------------
(* src/AnalisadorSemantico.py: inferir_tipo.  The result is the inferred     *)
(* type (None when unknown) and the errors the call appends to self.erros,   *)
(* in the order it appends them.                                             *)

Numericos == {"inteiro", "flutuante"}

OperadoresAritmeticos == {"+", "-", "*", "/"}
OperadoresComparacao == {">", "<", ">=", "<=", "==", "!="}
OperadoresLogicos == {"e", "ou"}
OperadorConcatenacao == "&&"

Resultado(tipo, errs) == [tipo |-> tipo, erros |-> errs]

\* the arithmetic rule without the promotion to flutuante
InferirBinariaSemPromocao(op, esq_tipo, dir_tipo) ==
    IF op \in OperadoresAritmeticos THEN
        IF esq_tipo \in Numericos /\ dir_tipo \in Numericos
        THEN Resultado(esq_tipo, <<>>)
        ELSE Resultado(None, <<ErroOperandosNumericos(op)>>)
    ELSE IF op \in OperadoresComparacao THEN
        IF (esq_tipo \in Numericos /\ dir_tipo \in Numericos)
           \/ (esq_tipo = dir_tipo /\ esq_tipo \in Tipos)
        THEN Resultado("logico", <<>>)
        ELSE Resultado(None, <<ErroComparacao(op, esq_tipo, dir_tipo)>>)
    ELSE IF op \in OperadoresLogicos THEN
        IF esq_tipo = "logico" /\ dir_tipo = "logico"
        THEN Resultado("logico", <<>>)
        ELSE Resultado(None, <<ErroOperadorLogico(op, esq_tipo, dir_tipo)>>)
    ELSE IF op = OperadorConcatenacao THEN
        IF esq_tipo = "cadeia" /\ dir_tipo = "cadeia"
        THEN Resultado("cadeia", <<>>)
        ELSE Resultado(None, <<ErroConcatenacao(esq_tipo, dir_tipo)>>)
    ELSE Resultado(None, <<>>)

\* ExpressaoBinaria, after both operand types are inferred
InferirBinaria(op, esq_tipo, dir_tipo) ==
    IF op \in OperadoresAritmeticos THEN
        IF esq_tipo \in Numericos /\ dir_tipo \in Numericos
        THEN IF esq_tipo = "flutuante" \/ dir_tipo = "flutuante"
             THEN Resultado("flutuante", <<>>)
             ELSE Resultado("inteiro", <<>>)
        ELSE Resultado(None, <<ErroOperandosNumericos(op)>>)
    ELSE IF op \in OperadoresComparacao THEN
        IF esq_tipo \in Numericos /\ dir_tipo \in Numericos
        THEN Resultado("logico", <<>>)
        ELSE IF esq_tipo = dir_tipo /\ esq_tipo \in Tipos
        THEN Resultado("logico", <<>>)
        ELSE Resultado(None, <<ErroComparacao(op, esq_tipo, dir_tipo)>>)
    ELSE IF op \in OperadoresLogicos THEN
        IF esq_tipo = "logico" /\ dir_tipo = "logico"
        THEN Resultado("logico", <<>>)
        ELSE Resultado(None, <<ErroOperadorLogico(op, esq_tipo, dir_tipo)>>)
    ELSE IF op = OperadorConcatenacao THEN
        IF esq_tipo = "cadeia" /\ dir_tipo = "cadeia"
        THEN Resultado("cadeia", <<>>)
        ELSE Resultado(None, <<ErroConcatenacao(esq_tipo, dir_tipo)>>)
    ELSE Resultado(None, <<>>)

\* ExpressaoUnaria, after the operand type is inferred
InferirUnaria(op, expr_tipo) ==
    IF op = "!" THEN
        IF expr_tipo = "logico"
        THEN Resultado("logico", <<>>)
        ELSE Resultado(None, <<ErroNegacao(expr_tipo)>>)
    ELSE IF op = "-" THEN
        IF expr_tipo \in Numericos
        THEN Resultado(expr_tipo, <<>>)
        ELSE Resultado(None, <<ErroMenosUnario(expr_tipo)>>)
    ELSE IF op \in {"++", "--"} THEN
        IF expr_tipo = "inteiro"
        THEN Resultado("inteiro", <<>>)
        ELSE Resultado(None, <<ErroIncremento(op, expr_tipo)>>)
    ELSE Resultado(None, <<>>)

\* ChamadaFuncao: the check of the argument count against the signature;
\* TRUE when the call is rejected before any argument is inferred
NumeroArgumentosDifere(argumentos, tipos_params) ==
    Len(argumentos) # Len(tipos_params)

\* the argument check with the numeric promotion of arithmetic
ChecarArgumentoComPromocao(i, nome, arg_tipo, tipo_param) ==
    IF arg_tipo # tipo_param /\ ~(arg_tipo = "inteiro" /\ tipo_param = "flutuante")
    THEN <<ErroArgumento(i, nome, tipo_param, arg_tipo)>>
    ELSE <<>>

\* ChamadaFuncao: the check of one inferred argument type against its parameter
ChecarArgumento(i, nome, arg_tipo, tipo_param) ==
    IF arg_tipo # tipo_param
    THEN <<ErroArgumento(i, nome, tipo_param, arg_tipo)>>
    ELSE <<>>

RECURSIVE InferirTipo(_, _, _)
RECURSIVE InferirArgumentos(_, _, _, _, _)

\* ChamadaFuncao: the loop over the arguments from index i (1-based) on:
\* the errors of inferring each argument followed by its type check
InferirArgumentos(no, tipos_params, i, tabela, funcs) ==
    IF i > Len(no.argumentos) THEN <<>>
    ELSE LET arg == InferirTipo(no.argumentos[i], tabela, funcs)
         IN  arg.erros
             \o ChecarArgumento(i, no.nome, arg.tipo, tipos_params[i])
             \o InferirArgumentos(no, tipos_params, i + 1, tabela, funcs)

InferirTipo(no, tabela, funcs) ==
    IF no = Nulo THEN Resultado(None, <<>>)
    ELSE IF no.classe = "Literal" THEN Resultado(no.tipo, <<>>)
    ELSE IF no.classe = "Identificador" THEN
        LET busca == BuscarVariavel(tabela, no.nome)
        IN  IF busca.info # Nulo
            THEN Resultado(busca.info.tipo, busca.erros)
            ELSE Resultado(None, busca.erros)
    ELSE IF no.classe = "ExpressaoBinaria" THEN
        LET esq == InferirTipo(no.esquerda, tabela, funcs)
            dir == InferirTipo(no.direita, tabela, funcs)
            res == InferirBinaria(no.operador, esq.tipo, dir.tipo)
        IN  Resultado(res.tipo, esq.erros \o dir.erros \o res.erros)
    ELSE IF no.classe = "ExpressaoUnaria" THEN
        LET expr == InferirTipo(no.expressao, tabela, funcs)
            res == InferirUnaria(no.operador, expr.tipo)
        IN  Resultado(res.tipo, expr.erros \o res.erros)
    ELSE IF no.classe = "ChamadaFuncao" THEN
        LET busca == BuscarFuncao(funcs, no.nome)
        IN  IF busca.info # Nulo
            THEN IF NumeroArgumentosDifere(no.argumentos, busca.info.tipos_params)
                 THEN Resultado(None,
                          busca.erros \o <<ErroNumeroArgumentos(no.nome,
                                              Len(busca.info.tipos_params),
                                              Len(no.argumentos))>>)
                 ELSE Resultado(busca.info.tipo_retorno,
                          busca.erros \o InferirArgumentos(no, busca.info.tipos_params,
                                                           1, tabela, funcs))
            ELSE Resultado(None, busca.erros)
    ELSE Resultado(None, <<>>)

-----------------------------------------------------------------------------
(* src/AnalisadorSemantico.py: visitar and analisar.  The head of pilha is   *)
(* the node the next visitar() call receives, or the rest of a handler that  *)
(* runs after the child statements it has visited.                           *)

\* the rest of a handler: the sair_escopo() after a block
RestoSairEscopo == [classe |-> "sair_escopo"]
\* the rest of ComandoSe: the entrar_escopo() before the bloco_falso
RestoEntrarEscopo == [classe |-> "entrar_escopo"]
\* the rest of ComandoPara after the inicializacao: the check of the condicao
RestoCondicaoPara(condicao) == [classe |-> "condicao_para", condicao |-> condicao]

Topo == pilha[1]

Visitando(classe) == pilha # <<>> /\ Topo.classe = classe

\* a list of optional nodes without the None ones (visitar(None) returns at once)
SemNulos(nos) == SelectSeq(nos, LAMBDA n : n # Nulo)

\* the condition check that lets an unknown type pass, as the initializer
\* check does
ChecarCondicaoSemDesconhecido(cond_tipo, comando) ==
    IF cond_tipo # None /\ cond_tipo # "logico"
    THEN <<ErroCondicao(comando)>> ELSE <<>>

\* the condition check shared by se, enquanto and para
ChecarCondicao(cond_tipo, comando) ==
    IF cond_tipo # "logico" THEN <<ErroCondicao(comando)>> ELSE <<>>

\* the initializer check with the numeric promotion of arithmetic
ChecarInicializacaoComPromocao(no, init_tipo) ==
    IF init_tipo # None /\ init_tipo # no.tipo
       /\ ~(init_tipo = "inteiro" /\ no.tipo = "flutuante")
    THEN <<ErroInicializacao(no.nome, no.tipo, init_tipo)>>
    ELSE <<>>

\* DeclaracaoVariavel: the check of the initializer against the declared type
ChecarInicializacao(no, init_tipo) ==
    IF init_tipo # None /\ init_tipo # no.tipo
    THEN <<ErroInicializacao(no.nome, no.tipo, init_tipo)>>
    ELSE <<>>

\* Atribuicao: the check of the expression against the stored type
ChecarAtribuicao(no, var_tipo, expr_tipo) ==
    IF expr_tipo # None /\ expr_tipo # var_tipo
    THEN <<ErroAtribuicao(no.nome, var_tipo, expr_tipo)>>
    ELSE <<>>

\* Atribuicao: the errors of the whole handler
ErrosAtribuicao(no, tabela, funcs) ==
    LET busca == BuscarVariavel(tabela, no.nome)
    IN  IF busca.info # Nulo
        THEN LET expr == InferirTipo(no.expressao, tabela, funcs)
             IN  busca.erros \o expr.erros
                 \o ChecarAtribuicao(no, busca.info.tipo, expr.tipo)
        ELSE busca.erros

RECURSIVE DeclararParametros(_, _, _)
\* DeclaracaoFuncao: the loop declaring the parameters from index i on
DeclararParametros(tabela, params, i) ==
    IF i > Len(params) THEN [tabela |-> tabela, erros |-> <<>>]
    ELSE LET d == DeclararVariavel(tabela, params[i].nome, params[i].tipo, FALSE)
             r == DeclararParametros(d.tabela, params, i + 1)
         IN  [tabela |-> r.tabela, erros |-> d.erros \o r.erros]

\* analisar(ast): a None ast returns at once, else visitar(ast)
Analisar ==
    /\ etapa = "semantica"
    /\ estado_gerador = "novo"
    /\ pilha = <<>>
    /\ chamadas < MaxAnalises
    /\ chamadas' = chamadas + 1
    /\ pilha' = IF ast = Nulo THEN <<>> ELSE <<ast>>
    /\ UNCHANGED <<ast, erros, tabela_simbolos, funcoes, gerador, principal>>

VisitarPrograma ==
    /\ Visitando("Programa")
    /\ pilha' = Topo.comandos \o Tail(pilha)
    /\ UNCHANGED <<ast, erros, tabela_simbolos, funcoes, chamadas, gerador, principal>>

VisitarDeclaracaoVariavel ==
    /\ Visitando("DeclaracaoVariavel")
    /\ LET no == Topo
           d == DeclararVariavel(tabela_simbolos, no.nome, no.tipo,
                                 no.tamanho_array # <<>>)
           init == InferirTipo(no.valor_inicial, d.tabela, funcoes)
       IN  /\ tabela_simbolos' = d.tabela
           /\ erros' = IF no.valor_inicial # Nulo
                       THEN erros \o d.erros \o init.erros
                                  \o ChecarInicializacao(no, init.tipo)
                       ELSE erros \o d.erros
    /\ pilha' = Tail(pilha)
    /\ UNCHANGED <<ast, funcoes, chamadas, gerador, principal>>

VisitarDeclaracaoFuncao ==
    /\ Visitando("DeclaracaoFuncao")
    /\ LET no == Topo
           f == DeclararFuncao(funcoes, no.nome, no.tipo_retorno, no.parametros)
           p == DeclararParametros(EntrarEscopo(tabela_simbolos), no.parametros, 1)
       IN  /\ funcoes' = f.funcoes
           /\ tabela_simbolos' = p.tabela
           /\ erros' = erros \o f.erros \o p.erros
           /\ pilha' = no.corpo \o <<RestoSairEscopo>> \o Tail(pilha)
    /\ UNCHANGED <<ast, chamadas, gerador, principal>>

VisitarAtribuicao ==
    /\ Visitando("Atribuicao")
    /\ erros' = erros \o ErrosAtribuicao(Topo, tabela_simbolos, funcoes)
    /\ pilha' = Tail(pilha)
    /\ UNCHANGED <<ast, tabela_simbolos, funcoes, chamadas, gerador, principal>>

VisitarComandoSe ==
    /\ Visitando("ComandoSe")
    /\ LET no == Topo
           cond == InferirTipo(no.condicao, tabela_simbolos, funcoes)
       IN  /\ erros' = erros \o cond.erros \o ChecarCondicao(cond.tipo, "se")
           /\ tabela_simbolos' = EntrarEscopo(tabela_simbolos)
           /\ pilha' = no.bloco_verdadeiro \o <<RestoSairEscopo>>
                       \o (IF no.bloco_falso # <<>>
                           THEN <<RestoEntrarEscopo>> \o no.bloco_falso
                                \o <<RestoSairEscopo>>
                           ELSE <<>>)
                       \o Tail(pilha)
    /\ UNCHANGED <<ast, funcoes, chamadas, gerador, principal>>

\* ComandoEnquanto that never leaves the frame of its block
VisitarComandoEnquantoSemSair ==
    /\ Visitando("ComandoEnquanto")
    /\ LET no == Topo
           cond == InferirTipo(no.condicao, tabela_simbolos, funcoes)
       IN  /\ erros' = erros \o cond.erros \o ChecarCondicao(cond.tipo, "enquanto")
           /\ tabela_simbolos' = EntrarEscopo(tabela_simbolos)
           /\ pilha' = no.bloco \o Tail(pilha)
    /\ UNCHANGED <<ast, funcoes, chamadas, gerador, principal>>

VisitarComandoEnquanto ==
    /\ Visitando("ComandoEnquanto")
    /\ LET no == Topo
           cond == InferirTipo(no.condicao, tabela_simbolos, funcoes)
       IN  /\ erros' = erros \o cond.erros \o ChecarCondicao(cond.tipo, "enquanto")
           /\ tabela_simbolos' = EntrarEscopo(tabela_simbolos)
           /\ pilha' = no.bloco \o <<RestoSairEscopo>> \o Tail(pilha)
    /\ UNCHANGED <<ast, funcoes, chamadas, gerador, principal>>

\* ComandoPara giving the body a frame of its own
VisitarComandoParaCorpoProprio ==
    /\ Visitando("ComandoPara")
    /\ LET no == Topo
       IN  /\ tabela_simbolos' = EntrarEscopo(tabela_simbolos)
           /\ pilha' = SemNulos(<<no.inicializacao>>)
                       \o (IF no.condicao # Nulo
                           THEN <<RestoCondicaoPara(no.condicao)>> ELSE <<>>)
                       \o SemNulos(<<no.incremento>>)
                       \o <<RestoEntrarEscopo>> \o no.bloco \o <<RestoSairEscopo>>
                       \o <<RestoSairEscopo>> \o Tail(pilha)
    /\ UNCHANGED <<ast, erros, funcoes, chamadas, gerador, principal>>

VisitarComandoPara ==
    /\ Visitando("ComandoPara")
    /\ LET no == Topo
       IN  /\ tabela_simbolos' = EntrarEscopo(tabela_simbolos)
           /\ pilha' = SemNulos(<<no.inicializacao>>)
                       \o (IF no.condicao # Nulo
                           THEN <<RestoCondicaoPara(no.condicao)>> ELSE <<>>)
                       \o SemNulos(<<no.incremento>>)
                       \o no.bloco \o <<RestoSairEscopo>> \o Tail(pilha)
    /\ UNCHANGED <<ast, erros, funcoes, chamadas, gerador, principal>>

\* ComandoPara, after visitar(no.inicializacao)
ContinuarCondicaoPara ==
    /\ Visitando("condicao_para")
    /\ LET cond == InferirTipo(Topo.condicao, tabela_simbolos, funcoes)
       IN  erros' = erros \o cond.erros \o ChecarCondicao(cond.tipo, "para")
    /\ pilha' = Tail(pilha)
    /\ UNCHANGED <<ast, tabela_simbolos, funcoes, chamadas, gerador, principal>>

\* ComandoSe, between its two blocks
ContinuarEntrarEscopo ==
    /\ Visitando("entrar_escopo")
    /\ tabela_simbolos' = EntrarEscopo(tabela_simbolos)
    /\ pilha' = Tail(pilha)
    /\ UNCHANGED <<ast, erros, funcoes, chamadas, gerador, principal>>

\* the sair_escopo() that ends a block
ContinuarSairEscopo ==
    /\ Visitando("sair_escopo")
    /\ tabela_simbolos' = SairEscopo(tabela_simbolos)
    /\ pilha' = Tail(pilha)
    /\ UNCHANGED <<ast, erros, funcoes, chamadas, gerador, principal>>

VisitarComandoEscreva ==
    /\ Visitando("ComandoEscreva")
    /\ erros' = erros \o InferirTipo(Topo.expressao, tabela_simbolos, funcoes).erros
    /\ pilha' = Tail(pilha)
    /\ UNCHANGED <<ast, tabela_simbolos, funcoes, chamadas, gerador, principal>>

VisitarComandoLeia ==
    /\ Visitando("ComandoLeia")
    /\ erros' = erros \o BuscarVariavel(tabela_simbolos, Topo.variavel).erros
    /\ pilha' = Tail(pilha)
    /\ UNCHANGED <<ast, tabela_simbolos, funcoes, chamadas, gerador, principal>>

\* a ChamadaFuncao, ExpressaoBinaria or ExpressaoUnaria in statement position
VisitarExpressao ==
    /\ pilha # <<>>
    /\ Topo.classe \in {"ChamadaFuncao", "ExpressaoBinaria", "ExpressaoUnaria"}
    /\ erros' = erros \o InferirTipo(Topo, tabela_simbolos, funcoes).erros
    /\ pilha' = Tail(pilha)
    /\ UNCHANGED <<ast, tabela_simbolos, funcoes, chamadas, gerador, principal>>

-----------------------------------------------------------------------------
(* src/GeradorCodigoMIPS.py: the lines of the assembly text.  A line is its  *)
(* mnemonic (or directive) and its operands, in the order the f-string       *)
(* writes them; gerar() joins the lines with newlines.                       *)

Linha(op, args) == [op |-> op, args |-> args]

\* ".data", ".text"
Diretiva(nome) == Linha(nome, <<>>)
\* ""
LinhaEmBranco == Linha("", <<>>)
\* "<label>:"
Rotulo(label) == Linha("rotulo", <<label>>)
\* "<label>: <directive> <value>"
Armazenamento(label, diretiva, valor) == Linha(diretiva, <<label, valor>>)

DiretivasDeArmazenamento == {".word", ".float", ".asciiz", ".space"}

\* novo_temp: the register named by the counter
NovoTemp(count) == "$t" \o ToString(count % 10)

\* nova_label that takes the names from a pool of two
NovaLabelCiclica(count) == "L" \o ToString(count % 2)

\* nova_label: the label named by the counter
NovaLabel(count) == "L" \o ToString(count)

\* the argument register $a<i>, i counted from 0
RegistradorArgumento(i) == "$a" \o ToString(i)

\* alocar_variavel: the storage line of a name not yet in var_map
LinhaDeAlocacao(nome, tipo, e_array) ==
    IF e_array THEN Armazenamento(nome, ".space", "40")
    ELSE IF tipo \in {"inteiro", "logico"} THEN Armazenamento(nome, ".word", "0")
    ELSE IF tipo = "flutuante" THEN Armazenamento(nome, ".float", "0.0")
    ELSE IF tipo = "cadeia" THEN Armazenamento(nome, ".asciiz", "")
    ELSE Armazenamento(nome, ".word", "0")

\* alocar_variavel that allocates again a name var_map holds
AlocarVariavelDeNovo(g, nome, tipo, e_array) ==
    [g EXCEPT !.var_map = (nome :> nome) @@ g.var_map,
              !.codigo = Append(g.codigo, LinhaDeAlocacao(nome, tipo, e_array))]

\* alocar_variavel on the generator state g (codigo, temp_count, var_map,
\* func_map, falha, reg)
AlocarVariavel(g, nome, tipo, e_array) ==
    IF nome \in DOMAIN g.var_map THEN g
    ELSE [g EXCEPT !.var_map = (nome :> nome) @@ g.var_map,
                   !.codigo = Append(g.codigo, LinhaDeAlocacao(nome, tipo, e_array))]

\* self.codigo.append(...) of several lines
Emitir(g, linhas) == [g EXCEPT !.codigo = g.codigo \o linhas]

\* a KeyError of var_map[...] or func_map[...]: the exception ends gerar()
Falhar(g) == [g EXCEPT !.falha = TRUE]

\* the lines of the binary operators
LinhasBinaria(op, reg_res, reg_esq, reg_dir) ==
    IF op = "+" THEN <<Linha("add", <<reg_res, reg_esq, reg_dir>>)>>
    ELSE IF op = "-" THEN <<Linha("sub", <<reg_res, reg_esq, reg_dir>>)>>
    ELSE IF op = "*" THEN <<Linha("mul", <<reg_res, reg_esq, reg_dir>>)>>
    ELSE IF op = "/" THEN <<Linha("div", <<reg_res, reg_esq, reg_dir>>)>>
    ELSE IF op = ">" THEN <<Linha("slt", <<reg_res, reg_dir, reg_esq>>)>>
    ELSE IF op = "<" THEN <<Linha("slt", <<reg_res, reg_esq, reg_dir>>)>>
    ELSE IF op = ">=" THEN <<Linha("slt", <<reg_res, reg_esq, reg_dir>>),
                             Linha("xori", <<reg_res, reg_res, "1">>)>>
    ELSE IF op = "<=" THEN <<Linha("slt", <<reg_res, reg_dir, reg_esq>>),
                             Linha("xori", <<reg_res, reg_res, "1">>)>>
    ELSE IF op = "==" THEN <<Linha("seq", <<reg_res, reg_esq, reg_dir>>)>>
    ELSE IF op = "!=" THEN <<Linha("sne", <<reg_res, reg_esq, reg_dir>>)>>
    ELSE IF op = "e" THEN <<Linha("and", <<reg_res, reg_esq, reg_dir>>)>>
    ELSE IF op = "ou" THEN <<Linha("or", <<reg_res, reg_esq, reg_dir>>)>>
    ELSE <<>>

\* the line of a Literal
LinhasLiteral(no, reg) ==
    IF no.tipo = "inteiro" THEN <<Linha("li", <<reg, no.valor>>)>>
    ELSE IF no.tipo = "flutuante" THEN <<Linha("li.s", <<reg, no.valor>>)>>
    ELSE IF no.tipo = "logico"
        THEN <<Linha("li", <<reg, IF no.valor = "verdadeiro" THEN "1" ELSE "0">>)>>
    ELSE IF no.tipo = "cadeia" THEN <<Linha("la", <<reg, no.valor>>)>>
    ELSE <<>>

-----------------------------------------------------------------------------
(* src/GeradorCodigoMIPS.py: visitar on expressions.  It appends lines,      *)
(* advances temp_count and returns the register of the value, so it is the   *)
(* recursive operator GerarExpressao on the generator state g; g.reg is the  *)
(* register returned, g.falha tells that a lookup raised KeyError.           *)

\* the generator state of the current state of the model
EstadoGerador ==
    [codigo |-> codigo, temp_count |-> temp_count, var_map |-> var_map,
     func_map |-> func_map, falha |-> FALSE, reg |-> ""]

\* reg = self.novo_temp()
ComNovoTemp(g) ==
    [g EXCEPT !.temp_count = g.temp_count + 1, !.reg = NovoTemp(g.temp_count)]

\* the number of arguments a call passes in registers: no.argumentos[:4]
MaxRegistradoresArgumento == 4

Primeiros(lista) ==
    SubSeq(lista, 1, IF Len(lista) < MaxRegistradoresArgumento
                     THEN Len(lista) ELSE MaxRegistradoresArgumento)

RECURSIVE GerarExpressao(_, _)
RECURSIVE GerarArgumentos(_, _, _)

\* ChamadaFuncao: the loop over the arguments passed in registers, from index
\* i on (i counted from 1; argument i goes to $a<i-1>)
GerarArgumentos(argumentos, i, g) ==
    IF g.falha \/ i > Len(argumentos) THEN g
    ELSE LET arg == GerarExpressao(argumentos[i], g)
         IN  IF arg.falha THEN arg
             ELSE GerarArgumentos(argumentos, i + 1,
                      Emitir(arg, <<Linha("move", <<RegistradorArgumento(i - 1),
                                                    arg.reg>>)>>))

GerarExpressao(no, g) ==
    IF g.falha THEN g
    ELSE IF no.classe = "Literal" THEN
        LET t == ComNovoTemp(g)
        IN  Emitir(t, LinhasLiteral(no, t.reg))
    ELSE IF no.classe = "Identificador" THEN
        LET t == ComNovoTemp(g)
        IN  IF no.nome \in DOMAIN t.var_map
            THEN Emitir(t, <<Linha("lw", <<t.reg, t.var_map[no.nome]>>)>>)
            ELSE Falhar(t)
    ELSE IF no.classe = "ExpressaoBinaria" THEN
        LET esq == GerarExpressao(no.esquerda, g)
            dir == GerarExpressao(no.direita, esq)
            t == ComNovoTemp(dir)
        IN  IF dir.falha THEN dir
            ELSE Emitir(t, LinhasBinaria(no.operador, t.reg, esq.reg, dir.reg))
    ELSE IF no.classe = "ExpressaoUnaria" THEN
        LET expr == GerarExpressao(no.expressao, g)
            t == ComNovoTemp(expr)
        IN  IF expr.falha THEN expr
            ELSE IF no.operador = "!" THEN
                Emitir(t, <<Linha("li", <<t.reg, "1">>),
                            Linha("xor", <<t.reg, expr.reg, t.reg>>)>>)
            ELSE IF no.operador = "-" THEN
                Emitir(t, <<Linha("neg", <<t.reg, expr.reg>>)>>)
            ELSE IF no.operador \in {"++", "--"} THEN
                IF no.expressao.nome \in DOMAIN t.var_map
                THEN LET label == t.var_map[no.expressao.nome]
                     IN  Emitir(t, <<Linha("lw", <<t.reg, label>>),
                                     Linha("addi", <<t.reg, t.reg,
                                           IF no.operador = "++" THEN "1" ELSE "-1">>),
                                     Linha("sw", <<t.reg, label>>)>>)
                ELSE Falhar(t)
            ELSE t
    ELSE IF no.classe = "ChamadaFuncao" THEN
        LET args == GerarArgumentos(Primeiros(no.argumentos), 1, g)
            t == ComNovoTemp(Emitir(args, <<Linha("jal", <<args.func_map[no.nome]>>)>>))
        IN  IF args.falha THEN args
            ELSE IF no.nome \notin DOMAIN args.func_map THEN Falhar(args)
            ELSE Emitir(t, <<Linha("move", <<t.reg, "$v0">>)>>)
    ELSE g

-----------------------------------------------------------------------------
(* src/GeradorCodigoMIPS.py: gerar and visitar on statements.  The head of   *)
(* pilha_gerador is the node the next visitar() call receives, or the rest   *)
(* of a handler that runs after the child statements it has visited.         *)

\* the rest of a handler: lines appended after a block
RestoEmitir(linhas) == [classe |-> "emitir", linhas |-> linhas]
\* the rest of ComandoPara after the inicializacao: the start label and the
\* condition with its branch
RestoCondicaoParaGerador(label_inicio, condicao, label_fim) ==
    [classe |-> "condicao_para", label_inicio |-> label_inicio,
     condicao |-> condicao, label_fim |-> label_fim]

TopoGerador == pilha_gerador[1]

Gerando(classe) ==
    estado_gerador = "gerando" /\ pilha_gerador # <<>> /\ TopoGerador.classe = classe

\* the state after a handler that ended in generator state r: an exception
\* unwinds the whole recursion, otherwise the work left is `resto`
Prosseguir(r, resto) ==
    /\ codigo' = r.codigo
    /\ temp_count' = r.temp_count
    /\ var_map' = r.var_map
    /\ func_map' = r.func_map
    /\ estado_gerador' = IF r.falha THEN "falhou" ELSE estado_gerador
    /\ pilha_gerador' = IF r.falha THEN <<>> ELSE resto

\* gerar(ast): the visit of the AST begins (visitar(None) returns at once)
Gerar ==
    /\ etapa = "semantica"
    /\ chamadas >= 1
    /\ pilha = <<>>
    /\ estado_gerador = "novo"
    /\ estado_gerador' = "gerando"
    /\ pilha_gerador' = IF ast = Nulo THEN <<>> ELSE <<ast>>
    /\ UNCHANGED <<ast, analisador, principal, codigo, temp_count, label_count,
                   var_map, func_map>>

\* gerar(ast), after visitar(ast): the .text header, main: and the exit
ConcluirGerar ==
    /\ estado_gerador = "gerando"
    /\ pilha_gerador = <<>>
    /\ codigo' = codigo \o <<LinhaEmBranco, Diretiva(".text"), Rotulo("main"),
                             Linha("li", <<"$v0", "10">>), Linha("syscall", <<>>)>>
    /\ estado_gerador' = "concluido"
    /\ UNCHANGED <<ast, analisador, principal, temp_count, label_count, var_map,
                   func_map, pilha_gerador>>

GerarPrograma ==
    /\ Gerando("Programa")
    /\ pilha_gerador' = TopoGerador.comandos \o Tail(pilha_gerador)
    /\ UNCHANGED <<ast, analisador, principal, codigo, temp_count, label_count,
                   var_map, func_map, estado_gerador>>

GerarDeclaracaoVariavel ==
    /\ Gerando("DeclaracaoVariavel")
    /\ LET no == TopoGerador
           aloc == AlocarVariavel(EstadoGerador, no.nome, no.tipo,
                                  no.tamanho_array # <<>>)
           init == GerarExpressao(no.valor_inicial, aloc)
           label == init.var_map[no.nome]
           r == IF no.valor_inicial = Nulo THEN aloc
                ELSE IF init.falha THEN init
                ELSE IF no.tipo \in {"inteiro", "logico"}
                    THEN Emitir(init, <<Linha("sw", <<init.reg, label>>)>>)
                ELSE IF no.tipo = "flutuante"
                    THEN Emitir(init, <<Linha("s.s", <<init.reg, label>>)>>)
                ELSE init
       IN  Prosseguir(r, Tail(pilha_gerador))
    /\ UNCHANGED <<ast, analisador, principal, label_count>>

GerarAtribuicao ==
    /\ Gerando("Atribuicao")
    /\ LET no == TopoGerador
           expr == GerarExpressao(no.expressao, EstadoGerador)
           r == IF expr.falha THEN expr
                ELSE IF no.nome \notin DOMAIN expr.var_map THEN Falhar(expr)
                ELSE Emitir(expr, <<Linha("sw", <<expr.reg, expr.var_map[no.nome]>>)>>)
       IN  Prosseguir(r, Tail(pilha_gerador))
    /\ UNCHANGED <<ast, analisador, principal, label_count>>

\* ComandoSe without the jump over the else-block
GerarComandoSeSemSalto ==
    /\ Gerando("ComandoSe")
    /\ LET no == TopoGerador
           cond == GerarExpressao(no.condicao, EstadoGerador)
           label_falso == NovaLabel(label_count)
           label_fim == NovaLabel(label_count + 1)
           r == IF cond.falha THEN cond
                ELSE Emitir(cond, <<Linha("beq", <<cond.reg, "$zero", label_falso>>)>>)
       IN  /\ Prosseguir(r, no.bloco_verdadeiro
                            \o <<RestoEmitir(<<Rotulo(label_falso)>>)>>
                            \o no.bloco_falso
                            \o <<RestoEmitir(<<Rotulo(label_fim)>>)>>
                            \o Tail(pilha_gerador))
           /\ label_count' = IF cond.falha THEN label_count ELSE label_count + 2
    /\ UNCHANGED <<ast, analisador, principal>>

GerarComandoSe ==
    /\ Gerando("ComandoSe")
    /\ LET no == TopoGerador
           cond == GerarExpressao(no.condicao, EstadoGerador)
           label_falso == NovaLabel(label_count)
           label_fim == NovaLabel(label_count + 1)
           r == IF cond.falha THEN cond
                ELSE Emitir(cond, <<Linha("beq", <<cond.reg, "$zero", label_falso>>)>>)
       IN  /\ Prosseguir(r, no.bloco_verdadeiro
                            \o <<RestoEmitir(<<Linha("j", <<label_fim>>),
                                               Rotulo(label_falso)>>)>>
                            \o no.bloco_falso
                            \o <<RestoEmitir(<<Rotulo(label_fim)>>)>>
                            \o Tail(pilha_gerador))
           /\ label_count' = IF cond.falha THEN label_count ELSE label_count + 2
    /\ UNCHANGED <<ast, analisador, principal>>

GerarComandoEnquanto ==
    /\ Gerando("ComandoEnquanto")
    /\ LET no == TopoGerador
           label_inicio == NovaLabel(label_count)
           label_fim == NovaLabel(label_count + 1)
           cond == GerarExpressao(no.condicao,
                                  Emitir(EstadoGerador, <<Rotulo(label_inicio)>>))
           r == IF cond.falha THEN cond
                ELSE Emitir(cond, <<Linha("beq", <<cond.reg, "$zero", label_fim>>)>>)
       IN  Prosseguir(r, no.bloco
                         \o <<RestoEmitir(<<Linha("j", <<label_inicio>>),
                                            Rotulo(label_fim)>>)>>
                         \o Tail(pilha_gerador))
    /\ label_count' = label_count + 2
    /\ UNCHANGED <<ast, analisador, principal>>

\* ComandoPara in the order of the source text: the increment before the body
GerarComandoParaIncrementoAntes ==
    /\ Gerando("ComandoPara")
    /\ LET no == TopoGerador
           label_inicio == NovaLabel(label_count)
           label_incremento == NovaLabel(label_count + 1)
           label_fim == NovaLabel(label_count + 2)
       IN  pilha_gerador' =
               SemNulos(<<no.inicializacao>>)
               \o <<RestoCondicaoParaGerador(label_inicio, no.condicao, label_fim)>>
               \o <<RestoEmitir(<<Rotulo(label_incremento)>>)>>
               \o SemNulos(<<no.incremento>>)
               \o no.bloco
               \o <<RestoEmitir(<<Linha("j", <<label_inicio>>), Rotulo(label_fim)>>)>>
               \o Tail(pilha_gerador)
    /\ label_count' = label_count + 3
    /\ UNCHANGED <<ast, analisador, principal, codigo, temp_count, var_map,
                   func_map, estado_gerador>>

GerarComandoPara ==
    /\ Gerando("ComandoPara")
    /\ LET no == TopoGerador
           label_inicio == NovaLabel(label_count)
           label_incremento == NovaLabel(label_count + 1)
           label_fim == NovaLabel(label_count + 2)
       IN  pilha_gerador' =
               SemNulos(<<no.inicializacao>>)
               \o <<RestoCondicaoParaGerador(label_inicio, no.condicao, label_fim)>>
               \o no.bloco
               \o <<RestoEmitir(<<Rotulo(label_incremento)>>)>>
               \o SemNulos(<<no.incremento>>)
               \o <<RestoEmitir(<<Linha("j", <<label_inicio>>), Rotulo(label_fim)>>)>>
               \o Tail(pilha_gerador)
    /\ label_count' = label_count + 3
    /\ UNCHANGED <<ast, analisador, principal, codigo, temp_count, var_map,
                   func_map, estado_gerador>>

\* ComandoPara, after visitar(no.inicializacao)
ContinuarCondicaoParaGerador ==
    /\ Gerando("condicao_para")
    /\ LET m == TopoGerador
           inicio == Emitir(EstadoGerador, <<Rotulo(m.label_inicio)>>)
           cond == GerarExpressao(m.condicao, inicio)
           r == IF m.condicao = Nulo THEN inicio
                ELSE IF cond.falha THEN cond
                ELSE Emitir(cond, <<Linha("beq", <<cond.reg, "$zero", m.label_fim>>)>>)
       IN  Prosseguir(r, Tail(pilha_gerador))
    /\ UNCHANGED <<ast, analisador, principal, label_count>>

\* the lines a handler appends after a block
ContinuarEmitir ==
    /\ Gerando("emitir")
    /\ codigo' = codigo \o TopoGerador.linhas
    /\ pilha_gerador' = Tail(pilha_gerador)
    /\ UNCHANGED <<ast, analisador, principal, temp_count, label_count, var_map,
                   func_map, estado_gerador>>

GerarComandoEscreva ==
    /\ Gerando("ComandoEscreva")
    /\ LET expr == GerarExpressao(TopoGerador.expressao, EstadoGerador)
           r == IF expr.falha THEN expr
                ELSE Emitir(expr, <<Linha("li", <<"$v0", "1">>),
                                    Linha("move", <<"$a0", expr.reg>>),
                                    Linha("syscall", <<>>),
                                    Linha("li", <<"$v0", "11">>),
                                    Linha("li", <<"$a0", "10">>),
                                    Linha("syscall", <<>>)>>)
       IN  Prosseguir(r, Tail(pilha_gerador))
    /\ UNCHANGED <<ast, analisador, principal, label_count>>

GerarComandoLeia ==
    /\ Gerando("ComandoLeia")
    /\ LET no == TopoGerador
           lido == Emitir(EstadoGerador, <<Linha("li", <<"$v0", "5">>),
                                           Linha("syscall", <<>>)>>)
           r == IF no.variavel \notin DOMAIN var_map THEN Falhar(lido)
                ELSE Emitir(lido, <<Linha("sw", <<"$v0", var_map[no.variavel]>>)>>)
       IN  Prosseguir(r, Tail(pilha_gerador))
    /\ UNCHANGED <<ast, analisador, principal, label_count>>

RECURSIVE SalvarParametros(_, _, _)
\* DeclaracaoFuncao: the loop over no.parametros[:4] from index i on
\* (parameter i is stored from $a<i-1>)
SalvarParametros(params, i, g) ==
    IF i > Len(params) THEN g
    ELSE LET aloc == AlocarVariavel(g, params[i].nome, params[i].tipo, FALSE)
         IN  SalvarParametros(params, i + 1,
                 Emitir(aloc, <<Linha("sw", <<RegistradorArgumento(i - 1),
                                              aloc.var_map[params[i].nome]>>)>>))

GerarDeclaracaoFuncao ==
    /\ Gerando("DeclaracaoFuncao")
    /\ LET no == TopoGerador
           entrada == Emitir([EstadoGerador EXCEPT
                                 !.func_map = [f \in DOMAIN func_map \cup {no.nome} |->
                                                  IF f = no.nome THEN no.nome
                                                  ELSE func_map[f]]],
                             <<LinhaEmBranco, Rotulo(no.nome)>>)
           r == SalvarParametros(Primeiros(no.parametros), 1, entrada)
       IN  Prosseguir(r, no.corpo \o <<RestoEmitir(<<Linha("jr", <<"$ra">>)>>)>>
                         \o Tail(pilha_gerador))
    /\ UNCHANGED <<ast, analisador, principal, label_count>>

\* a ChamadaFuncao, ExpressaoBinaria or ExpressaoUnaria in statement position
GerarExpressaoComando ==
    /\ estado_gerador = "gerando"
    /\ pilha_gerador # <<>>
    /\ TopoGerador.classe \in {"ChamadaFuncao", "ExpressaoBinaria", "ExpressaoUnaria"}
    /\ Prosseguir(GerarExpressao(TopoGerador, EstadoGerador), Tail(pilha_gerador))
    /\ UNCHANGED <<ast, analisador, principal, label_count>>

-----------------------------------------------------------------------------
(* The programs analysed: ASTs the parser of src/AnalisadorSLR.py builds.    *)

Nomes == {"x", "y"}
NomesFuncao == {"f", "g"}

\* all the lists over S of length at most n
SeqAte(S, n) == UNION {[1..k -> S] : k \in 0..n}

\* p_literal: one literal per type tag
LiteralDe(tipo) ==
    IF tipo = "inteiro" THEN Literal("5", tipo)
    ELSE IF tipo = "flutuante" THEN Literal("2.5", tipo)
    ELSE IF tipo = "logico" THEN Literal("verdadeiro", tipo)
    ELSE Literal("Maior", tipo)

Literais == {LiteralDe(t) : t \in Tipos}
Identificadores == {Identificador(n) : n \in Nomes}
Atomos == Literais \cup Identificadores

OperadoresBinarios ==
    OperadoresAritmeticos \cup OperadoresComparacao \cup OperadoresLogicos
    \cup {OperadorConcatenacao}

\* p_logical_or ... p_multiplicative over primaries
Binarias ==
    {ExpressaoBinaria(a, op, b) : a \in Atomos, op \in OperadoresBinarios, b \in Atomos}

\* p_unary: ! and - take any operand, ++ and -- an identifier
Unarias ==
    {ExpressaoUnaria(op, a) : op \in {"!", "-"}, a \in Atomos}
    \cup {ExpressaoUnaria(op, a) : op \in {"++", "--"}, a \in Identificadores}

ArgumentosGerados ==
    {LiteralDe("inteiro"), LiteralDe("flutuante"), Identificador("x"), Identificador("y")}

\* p_function_call
Chamadas ==
    {ChamadaFuncao(f, args) : f \in NomesFuncao, args \in SeqAte(ArgumentosGerados, MaxArgs)}

\* operands and arguments that are expressions themselves
Aninhadas ==
    {ExpressaoBinaria(ExpressaoBinaria(a, "+", b), op, c) :
        a \in {LiteralDe("inteiro"), Identificador("x")},
        b \in {LiteralDe("inteiro"), LiteralDe("flutuante")},
        op \in {"*", "<"},
        c \in {LiteralDe("inteiro"), Identificador("y")}}
    \cup {ChamadaFuncao("f", <<e>>) :
            e \in {ChamadaFuncao("f", <<a>>) : a \in ArgumentosGerados}
                  \cup {ExpressaoBinaria(a, "+", LiteralDe("inteiro")) : a \in ArgumentosGerados}}
    \cup {ExpressaoBinaria(ChamadaFuncao(f, <<>>), op, a) :
            f \in NomesFuncao, op \in {"+", "e"}, a \in {LiteralDe("inteiro"), LiteralDe("logico")}}

Expressoes == Atomos \cup Binarias \cup Unarias \cup Chamadas \cup Aninhadas

\* p_declaration without initializer
Declaracao(tipo, nome) == DeclaracaoVariavel(tipo, nome, <<>>, Nulo)

\* the parameter lists generated: parameter i is named by position
\* (the empty list is the AST of AST.py's DeclaracaoFuncao with no parameter;
\* the `empty` alternative of p_param_list and p_arg_list, AnalisadorSLR.py
\* 224-233 and 243-252, has len(p) = 2 and so builds [None] instead)
NomesParametro == <<"x", "y", "z">>
ListasParametros ==
    {[i \in 1..Len(ts) |-> Parametro(ts[i], NomesParametro[((i - 1) % Len(NomesParametro)) + 1])] :
        ts \in SeqAte({"inteiro", "flutuante"}, MaxArgs)}


\* declarations that set up the variables a statement refers to
AmbientesVariaveis ==
    {<<>>, <<Declaracao("inteiro", "x"), Declaracao("flutuante", "y")>>}
    \cup {<<Declaracao(t, "x")>> : t \in Tipos}

\* declarations that set up the function f a statement calls
AmbientesFuncoes ==
    {<<>>} \cup {<<DeclaracaoFuncao("flutuante", "f", ps, <<>>)>> : ps \in ListasParametros}

\* one statement holding each generated expression: the expressions without
\* a call under every variable environment, those with a call (as an operand
\* of escreva, or as the statement p_statement allows) under every signature of f
ProgramasExpressao ==
    {Programa(v \o <<ComandoEscreva(e)>>) :
        v \in AmbientesVariaveis, e \in Atomos \cup Binarias \cup Unarias}
    \cup {Programa(v \o f \o <<c>>) :
            v \in {<<>>, <<Declaracao("inteiro", "x"), Declaracao("flutuante", "y")>>},
            f \in AmbientesFuncoes,
            c \in Chamadas \cup {ComandoEscreva(e) : e \in Chamadas \cup Aninhadas}}

\* the expressions of the generated declarations and assignments
ExpressoesComando ==
    Literais
    \cup {Identificador("x"),
          ExpressaoBinaria(Identificador("x"), "+", LiteralDe("inteiro")),
          ChamadaFuncao("f", <<LiteralDe("inteiro")>>)}

\* p_declaration (all three forms), p_assignment, p_read_stmt
ComandosSimples ==
    {DeclaracaoVariavel(t, n, <<>>, e) :
        t \in Tipos, n \in Nomes, e \in ExpressoesComando \cup {Nulo}}
    \cup {DeclaracaoVariavel(t, "x", <<n>>, Nulo) : t \in {"inteiro", "cadeia"}, n \in {2, 3}}
    \cup {Atribuicao(n, e) : n \in Nomes, e \in ExpressoesComando}
    \cup {ComandoLeia(n) : n \in Nomes}

\* the statements generated after the statement of interest
ComandosSeguintes ==
    {<<ComandoEscreva(Identificador("x"))>>,
     <<Declaracao("cadeia", "x")>>,
     <<ComandoEnquanto(LiteralDe("logico"), <<Declaracao("cadeia", "x")>>)>>}

ProgramasSimples ==
    {Programa(v \o f \o <<c>> \o d) :
        v \in AmbientesVariaveis,
        f \in {<<>>, <<DeclaracaoFuncao("flutuante", "f",
                                        <<Parametro("inteiro", "x")>>, <<>>)>>},
        c \in ComandosSimples, d \in ComandosSeguintes}

\* the statements generated inside blocks
ComandosBloco ==
    {Declaracao("logico", "x"),
     ComandoEscreva(Identificador("x")),
     Atribuicao("x", LiteralDe("inteiro"))}

Blocos == SeqAte(ComandosBloco, MaxCmds)

\* a block of at most one statement, which may be a compound statement itself
BlocosCurtos ==
    {<<>>}
    \cup {<<c>> : c \in ComandosBloco}
    \cup {<<ComandoSe(LiteralDe("logico"), <<c>>, <<>>)>> : c \in ComandosBloco}

Condicoes ==
    {LiteralDe("logico"), Identificador("x"),
     ExpressaoBinaria(Identificador("x"), "<", LiteralDe("inteiro"))}

\* p_if_stmt, p_while_stmt, p_for_stmt, p_function_decl
ComandosCompostos ==
    {ComandoSe(c, b, s) : c \in Condicoes, b \in Blocos, s \in BlocosCurtos}
    \cup {ComandoEnquanto(c, b) : c \in Condicoes, b \in Blocos \cup BlocosCurtos}
    \cup {ComandoPara(i, c, inc, b) :
            i \in {Nulo, DeclaracaoVariavel("inteiro", "y", <<>>, LiteralDe("inteiro")),
                   DeclaracaoVariavel("inteiro", "x", <<>>, LiteralDe("inteiro")),
                   Atribuicao("x", LiteralDe("inteiro"))},
            c \in {Nulo, Identificador("y"),
                   ExpressaoBinaria(Identificador("y"), "<", LiteralDe("inteiro"))},
            inc \in {Nulo, ExpressaoUnaria("++", Identificador("y"))},
            b \in Blocos}
    \cup {DeclaracaoFuncao("inteiro", f, ps, b) :
            f \in {"f"}, ps \in ListasParametros, b \in Blocos}

ProgramasCompostos ==
    {Programa(v \o <<c>> \o d) :
        v \in {<<>>, <<Declaracao("inteiro", "x")>>},
        c \in ComandosCompostos, d \in ComandosSeguintes}

\* p_statement: a function_decl is a statement, so it may sit in a block or
\* in the body of another function
FuncoesAninhadas ==
    LET F == {DeclaracaoFuncao("flutuante", "f", ps, <<>>) : ps \in ListasParametros}
    IN  F
        \cup {ComandoSe(LiteralDe("logico"), <<d>>, <<>>) : d \in F}
        \cup {ComandoSe(LiteralDe("logico"), <<>>, <<d>>) : d \in F}
        \cup {ComandoEnquanto(LiteralDe("logico"), <<d>>) : d \in F}
        \cup {DeclaracaoFuncao("inteiro", "g", <<Parametro("inteiro", "y")>>, <<d>>) : d \in F}

\* a nested declaration of f, then another declaration of f or none, then a call
ProgramasFuncao ==
    {Programa(<<c>> \o d \o <<ChamadaFuncao("f", a)>>) :
        c \in FuncoesAninhadas,
        d \in {<<>>, <<DeclaracaoFuncao("cadeia", "f", <<>>, <<>>)>>,
               <<DeclaracaoFuncao("inteiro", "f", <<Parametro("inteiro", "x")>>, <<>>)>>},
        a \in {<<>>, <<LiteralDe("inteiro")>>}}

\* the parser returns None for a text it cannot recover from
Programas ==
    {Nulo} \cup ProgramasExpressao \cup ProgramasSimples \cup ProgramasCompostos
    \cup ProgramasFuncao

-----------------------------------------------------------------------------
(* The analyser instance: __init__, then analisar() calls on the same AST *)

\* AnalisadorSemantico.__init__
InitAnalisador ==
    /\ erros = <<>>
    /\ tabela_simbolos = <<EscopoVazio>>
    /\ funcoes = <<>>
    /\ pilha = <<>>
    /\ chamadas = 0

\* GeradorCodigoMIPS.__init__: the .data header and a blank line
InitGerador ==
    /\ codigo = <<Diretiva(".data"), LinhaEmBranco>>
    /\ temp_count = 0
    /\ label_count = 0
    /\ var_map = <<>>
    /\ func_map = <<>>
    /\ pilha_gerador = <<>>
    /\ estado_gerador = "novo"

\* the analyser used on its own: an AST is handed to analisar()
Init ==
    /\ ast \in Programas
    /\ InitAnalisador
    /\ InitGerador
    /\ etapa = "semantica"
    /\ erros_sintaticos = <<>>

Next ==
    \/ Analisar
    \/ VisitarPrograma
    \/ VisitarDeclaracaoVariavel
    \/ VisitarDeclaracaoFuncao
    \/ VisitarAtribuicao
    \/ VisitarComandoSe
    \/ VisitarComandoEnquanto
    \/ VisitarComandoPara
    \/ ContinuarCondicaoPara
    \/ ContinuarEntrarEscopo
    \/ ContinuarSairEscopo
    \/ VisitarComandoEscreva
    \/ VisitarComandoLeia
    \/ VisitarExpressao

Spec == Init /\ [][Next]_vars

-----------------------------------------------------------------------------
(* The programs compiled: analisar(ast) and then gerar(ast) on the same AST *)

\* p_declaration, third form
DeclaracaoArranjo(tipo, nome, tamanho) == DeclaracaoVariavel(tipo, nome, <<tamanho>>, Nulo)

\* two arrays declared with the sizes n and m
ProgramasArranjo ==
    {Programa(<<DeclaracaoArranjo("inteiro", "x", n), DeclaracaoArranjo("inteiro", "y", m)>>) :
        n \in {2, 3}, m \in {2, 3}}

\* a function with more parameters than argument registers, its body using
\* one of them
ParametrosDeCinco ==
    <<Parametro("inteiro", "a"), Parametro("inteiro", "b"), Parametro("inteiro", "c"),
      Parametro("inteiro", "d"), Parametro("inteiro", "e")>>

ProgramasCincoParametros ==
    {Programa(<<DeclaracaoFuncao("inteiro", "f", ParametrosDeCinco,
                                 <<ComandoEscreva(Identificador(n))>>)>> \o c) :
        n \in {"a", "d", "e"},
        c \in {<<>>,
               <<ChamadaFuncao("f", [i \in 1..5 |-> LiteralDe("inteiro")])>>}}

\* calls whose arguments are calls: f(a, g(b)), f(g(a), b), f(g(a))
ProgramasChamadaAninhada ==
    LET F == DeclaracaoFuncao("inteiro", "f",
                              <<Parametro("inteiro", "x"), Parametro("inteiro", "y")>>, <<>>)
        G == DeclaracaoFuncao("inteiro", "g", <<Parametro("inteiro", "x")>>, <<>>)
        a == LiteralDe("inteiro")
        g == ChamadaFuncao("g", <<a>>)
    IN  {Programa(<<F, G, c>>) :
            c \in {ChamadaFuncao("f", <<a, g>>), ChamadaFuncao("f", <<g, a>>),
                   ChamadaFuncao("f", <<g, g>>), ChamadaFuncao("f", <<a, a>>),
                   ComandoEscreva(ChamadaFuncao("f", <<a, g>>)),
                   ChamadaFuncao("g", <<g>>)}}

\* p_statement_list: two control statements in sequence, each with a control
\* statement nested in it
ComandosDeControle ==
    LET se == ComandoSe(LiteralDe("logico"), <<>>, <<>>)
        enquanto == ComandoEnquanto(LiteralDe("logico"), <<se>>)
    IN  {ComandoSe(LiteralDe("logico"), <<se>>, <<enquanto>>),
         enquanto,
         ComandoPara(Nulo, LiteralDe("logico"), Nulo, <<enquanto>>)}

ProgramasDoisControles ==
    {Programa(<<c, d>>) : c \in ComandosDeControle, d \in ComandosDeControle}

\* a variable and a function declared in the same program: the analyser keeps
\* variables and functions in separate tables, so the two may share a name
ProgramasMesmoNome ==
    {Programa(<<Declaracao("inteiro", v), DeclaracaoFuncao("inteiro", f, <<>>, <<>>)>>) :
        v \in {"x", "f"}, f \in {"f", "main"}}

\* the number of terms of the longest sum generated
MaxParcelas == 6

RECURSIVE Soma(_)
\* p_additive: the left-associative sum of n literals, 5 + 5 + ... + 5
Soma(n) ==
    IF n = 1 THEN LiteralDe("inteiro")
    ELSE ExpressaoBinaria(Soma(n - 1), "+", LiteralDe("inteiro"))

\* p_relational over p_additive: escreva(5 < 5 + ... + 5), the right operand a
\* sum of n terms
ProgramasExpressaoLonga ==
    {Programa(<<ComandoEscreva(ExpressaoBinaria(LiteralDe("inteiro"), "<", Soma(n)))>>) :
        n \in 1..MaxParcelas}

ProgramasCompilados ==
    Programas \cup ProgramasArranjo \cup ProgramasCincoParametros
    \cup ProgramasChamadaAninhada \cup ProgramasDoisControles
    \cup ProgramasMesmoNome \cup ProgramasExpressaoLonga

InitCompilacao ==
    /\ ast \in ProgramasCompilados
    /\ InitAnalisador
    /\ InitGerador
    /\ etapa = "semantica"
    /\ erros_sintaticos = <<>>

NextCompilacao ==
    \/ Analisar
    \/ VisitarPrograma
    \/ VisitarDeclaracaoVariavel
    \/ VisitarDeclaracaoFuncao
    \/ VisitarAtribuicao
    \/ VisitarComandoSe
    \/ VisitarComandoEnquanto
    \/ VisitarComandoPara
    \/ ContinuarCondicaoPara
    \/ ContinuarEntrarEscopo
    \/ ContinuarSairEscopo
    \/ VisitarComandoEscreva
    \/ VisitarComandoLeia
    \/ VisitarExpressao
    \/ Gerar
    \/ ConcluirGerar
    \/ GerarPrograma
    \/ GerarDeclaracaoVariavel
    \/ GerarAtribuicao
    \/ GerarComandoSe
    \/ GerarComandoEnquanto
    \/ GerarComandoPara
    \/ ContinuarCondicaoParaGerador
    \/ ContinuarEmitir
    \/ GerarComandoEscreva
    \/ GerarComandoLeia
    \/ GerarDeclaracaoFuncao
    \/ GerarExpressaoComando

SpecCompilacao == InitCompilacao /\ [][NextCompilacao]_vars

-----------------------------------------------------------------------------
(* src/AnalisadorSLR.py, __main__: the driver.  The lexer and the parser are *)
(* taken by their results: whether the lexer has errors, and the AST and the *)
(* error list the parser leaves.                                             *)

\* AnalisadorSintatico.p_error: the two messages
ErrosDoParser ==
    {<<>>, <<"Erro de sintaxe">>, <<"Fim de arquivo inesperado">>}

\* lex.analisar(); exit(1) when lex.tem_erros()
AnaliseLexica ==
    /\ etapa = "lexica"
    /\ \E tem_erros \in BOOLEAN :
           etapa' = IF tem_erros THEN "saida" ELSE "sintatica"
    /\ UNCHANGED <<ast, analisador, gerador, erros_sintaticos>>

\* ast = parser.analisar(tokens): parse() returns a Programa, or None when
\* it gives up after an error
AnaliseSintatica ==
    /\ etapa = "sintatica"
    /\ \E resultado \in Programas, es \in ErrosDoParser :
           /\ resultado = Nulo => es # <<>>
           /\ ast' = resultado
           /\ erros_sintaticos' = es
    /\ etapa' = "exportacao"
    /\ UNCHANGED <<analisador, gerador>>

\* if not parser.tem_erros(): imprimir_ast(ast) and the export to ast.json
ExportarAST ==
    /\ etapa = "exportacao"
    /\ erros_sintaticos = <<>>
    /\ etapa' = "semantica"
    /\ UNCHANGED <<ast, analisador, gerador, erros_sintaticos>>

\* the same `if`, not taken
PularExportacao ==
    /\ etapa = "exportacao"
    /\ erros_sintaticos # <<>>
    /\ etapa' = "semantica"
    /\ UNCHANGED <<ast, analisador, gerador, erros_sintaticos>>

\* semantico = AnalisadorSemantico(); semantico.analisar(ast)
AnalisarNoPrincipal == chamadas = 0 /\ Analisar

\* semantico.imprimir_erros(), the last statement
ImprimirErros ==
    /\ etapa = "semantica"
    /\ chamadas = 1
    /\ pilha = <<>>
    /\ etapa' = "fim"
    /\ UNCHANGED <<ast, analisador, gerador, erros_sintaticos>>

InitPrincipal ==
    /\ ast = Nulo
    /\ InitAnalisador
    /\ InitGerador
    /\ etapa = "lexica"
    /\ erros_sintaticos = <<>>

NextPrincipal ==
    \/ AnaliseLexica
    \/ AnaliseSintatica
    \/ ExportarAST
    \/ PularExportacao
    \/ AnalisarNoPrincipal
    \/ VisitarPrograma
    \/ VisitarDeclaracaoVariavel
    \/ VisitarDeclaracaoFuncao
    \/ VisitarAtribuicao
    \/ VisitarComandoSe
    \/ VisitarComandoEnquanto
    \/ VisitarComandoPara
    \/ ContinuarCondicaoPara
    \/ ContinuarEntrarEscopo
    \/ ContinuarSairEscopo
    \/ VisitarComandoEscreva
    \/ VisitarComandoLeia
    \/ VisitarExpressao
    \/ ImprimirErros

SpecPrincipal == InitPrincipal /\ [][NextPrincipal]_vars

-----------------------------------------------------------------------------
(* Vocabulary of the properties *)

\* the errors a step appends
NovosErros == SubSeq(erros', Len(erros) + 1, Len(erros'))

Contem(lista, e) == \E i \in 1..Len(lista) : lista[i] = e

Conta(lista, e) == Cardinality({i \in 1..Len(lista) : lista[i] = e})

EscopoAtual == tabela_simbolos[Len(tabela_simbolos)]

\* the frames under the innermost one
EscoposExternos == SubSeq(tabela_simbolos, 1, Len(tabela_simbolos) - 1)

\* the first analisar() call has returned and no other has been made
PrimeiraAnaliseConcluida == chamadas = 1 /\ pilha = <<>>

-----------------------------------------------------------------------------
(* C1: a declaration of a name the innermost frame already holds appends    *)
(* the 'já declarada neste escopo' error and leaves the table as it is; a    *)
(* declaration of a name held only by outer frames appends no such error,    *)
(* lookups then find the new entry, and the outer frames (what lookups find  *)
(* again once the inner frame is popped) are not touched.  While a frame     *)
(* lives no step removes or changes an entry of it.                          *)
C1_PassoDeclaracao ==
    Visitando("DeclaracaoVariavel") =>
        LET no == Topo
            entrada == [tipo |-> no.tipo, e_array |-> no.tamanho_array # <<>>]
        IN  /\ no.nome \in DOMAIN EscopoAtual =>
                /\ tabela_simbolos' = tabela_simbolos
                /\ NovosErros # <<>>
                /\ NovosErros[1] = ErroVariavelJaDeclarada(no.nome)
            /\ no.nome \notin DOMAIN EscopoAtual =>
                /\ ~Contem(NovosErros, ErroVariavelJaDeclarada(no.nome))
                /\ BuscarVariavel(tabela_simbolos', no.nome).info = entrada
                /\ Len(tabela_simbolos') = Len(tabela_simbolos)
                /\ \A i \in 1..(Len(tabela_simbolos) - 1) :
                       tabela_simbolos'[i] = tabela_simbolos[i]

C1_EntradasPermanecem ==
    \A i \in 1..Len(tabela_simbolos) :
        i <= Len(tabela_simbolos') =>
            \A n \in DOMAIN tabela_simbolos[i] :
                /\ n \in DOMAIN tabela_simbolos'[i]
                /\ tabela_simbolos'[i][n] = tabela_simbolos[i][n]

C1_Redeclaracao == [][C1_PassoDeclaracao /\ C1_EntradasPermanecem]_vars

\* inside a block: x of the block shadows the x of an outer frame, with another
\* type, and a second declaration of x in the block has been refused
C1_Witness ==
    /\ Len(tabela_simbolos) >= 2
    /\ "x" \in DOMAIN EscopoAtual
    /\ "x" \in DOMAIN tabela_simbolos[1]
    /\ EscopoAtual["x"].tipo # tabela_simbolos[1]["x"].tipo
    /\ BuscarVariavel(tabela_simbolos, "x").info = EscopoAtual["x"]
    /\ erros # <<>>
    /\ erros[Len(erros)] = ErroVariavelJaDeclarada("x")
    /\ chamadas = 1

-----------------------------------------------------------------------------
(* The scopes of a program, read off the AST: for each statement list that   *)
(* the analyser visits inside one frame, the names its declarations (and,    *)
(* for a function, its parameters; for a para, its inicializacao) introduce. *)

EhComposto(no) ==
    no.classe \in {"ComandoSe", "ComandoEnquanto", "ComandoPara", "DeclaracaoFuncao"}

\* the names the DeclaracaoVariavel statements of a list declare, in order
NomesDeclarados(cmds) ==
    LET decls == SelectSeq(cmds, LAMBDA c : c.classe = "DeclaracaoVariavel")
    IN  [i \in 1..Len(decls) |-> decls[i].nome]

RECURSIVE EscoposDoComando(_)
\* the scopes a list of statements opens (not the one it lies in)
EscoposAbertos(cmds) == UNION {EscoposDoComando(cmds[i]) : i \in 1..Len(cmds)}

EscoposDoComando(no) ==
    IF no.classe = "ComandoSe" THEN
        {NomesDeclarados(no.bloco_verdadeiro), NomesDeclarados(no.bloco_falso)}
        \cup EscoposAbertos(no.bloco_verdadeiro) \cup EscoposAbertos(no.bloco_falso)
    ELSE IF no.classe = "ComandoEnquanto" THEN
        {NomesDeclarados(no.bloco)} \cup EscoposAbertos(no.bloco)
    ELSE IF no.classe = "ComandoPara" THEN
        {NomesDeclarados(SemNulos(<<no.inicializacao>>) \o no.bloco)}
        \cup EscoposAbertos(no.bloco)
    ELSE IF no.classe = "DeclaracaoFuncao" THEN
        {[i \in 1..Len(no.parametros) |-> no.parametros[i].nome]
            \o NomesDeclarados(no.corpo)}
        \cup EscoposAbertos(no.corpo)
    ELSE {}

\* every scope of a program, the global one included
EscoposDoPrograma(programa) ==
    {NomesDeclarados(programa.comandos)} \cup EscoposAbertos(programa.comandos)

NomesUsados == Nomes \cup {NomesParametro[i] : i \in 1..Len(NomesParametro)}

-----------------------------------------------------------------------------
(* C2: a name declared only inside a se/enquanto/para block or a function    *)
(* body (parameters included) does not resolve once the block is left: a     *)
(* reference that follows the block appends 'não declarada'.  Declarations   *)
(* of one name in different scopes never clash: when no scope of the program *)
(* declares the name twice, no 'já declarada neste escopo' error is recorded *)
(* for it, whatever sibling or nested blocks declare it too.                 *)
C2_ReferenciaAposBloco ==
    (PrimeiraAnaliseConcluida /\ ast # Nulo) =>
        LET cs == ast.comandos
            k == Len(cs)
        IN  \A n \in NomesUsados :
                (/\ k >= 2
                 /\ cs[k] = ComandoEscreva(Identificador(n))
                 /\ EhComposto(cs[k - 1])
                 /\ \E escopo \in EscoposDoComando(cs[k - 1]) : Contem(escopo, n)
                 /\ ~Contem(NomesDeclarados(cs), n))
                => /\ erros # <<>>
                   /\ erros[Len(erros)] = ErroVariavelNaoDeclarada(n)

C2_BlocosIrmaos ==
    (chamadas <= 1 /\ ast # Nulo) =>
        \A n \in NomesUsados :
            (\A escopo \in EscoposDoPrograma(ast) : Conta(escopo, n) <= 1)
            => ~Contem(erros, ErroVariavelJaDeclarada(n))

C2_EscopoDeBloco == C2_ReferenciaAposBloco /\ C2_BlocosIrmaos

\* se ... senao with x declared in both branches and nowhere else, then
\* escreva(x): the only error is the unresolved reference after the blocks
C2_Witness ==
    /\ PrimeiraAnaliseConcluida
    /\ ast # Nulo
    /\ Len(ast.comandos) = 2
    /\ ast.comandos[1].classe = "ComandoSe"
    /\ Contem(NomesDeclarados(ast.comandos[1].bloco_verdadeiro), "x")
    /\ Contem(NomesDeclarados(ast.comandos[1].bloco_falso), "x")
    /\ ast.comandos[2] = ComandoEscreva(Identificador("x"))
    /\ erros = <<ErroVariavelNaoDeclarada("x")>>

-----------------------------------------------------------------------------
(* Vocabulary of the properties about expressions *)

NaoDeclarado(nome) == EscoposCom(tabela_simbolos, nome) = {}

EhAtomo(no) == no.classe \in {"Literal", "Identificador"}

\* an identifier that no frame of the stack holds
EhIdentificadorNaoDeclarado(no) ==
    no.classe = "Identificador" /\ NaoDeclarado(no.nome)

EhLiteralNumerico(no) == no.classe = "Literal" /\ no.tipo \in Numericos

\* the expression the step infers: the operand of escreva, or an expression
\* statement
ExpressaoDoPasso == IF Topo.classe = "ComandoEscreva" THEN Topo.expressao ELSE Topo

InfereExpressao ==
    pilha # <<>>
    /\ Topo.classe \in {"ComandoEscreva", "ChamadaFuncao", "ExpressaoBinaria",
                        "ExpressaoUnaria"}

\* what inferir_tipo returns for a node in the tables of the current state
Inferido(no) == InferirTipo(no, tabela_simbolos, funcoes)

-----------------------------------------------------------------------------
(* C3: an undeclared variable under an operator is one error, the            *)
(* 'não declarada' of the reference: for `x + 1`, `1 + x` (any arithmetic    *)
(* operator, a numeric literal on the other side) and for a unary operator   *)
(* on x, with x undeclared, the step appends that error and nothing else.    *)
(* The code appends the operator's type error too: the formula is violated.  *)
C3_PassoSemCascata ==
    InfereExpressao =>
        LET e == ExpressaoDoPasso
        IN  /\ (/\ e.classe = "ExpressaoBinaria"
                /\ e.operador \in OperadoresAritmeticos
                /\ EhIdentificadorNaoDeclarado(e.esquerda)
                /\ EhLiteralNumerico(e.direita))
               => NovosErros = <<ErroVariavelNaoDeclarada(e.esquerda.nome)>>
            /\ (/\ e.classe = "ExpressaoBinaria"
                /\ e.operador \in OperadoresAritmeticos
                /\ EhLiteralNumerico(e.esquerda)
                /\ EhIdentificadorNaoDeclarado(e.direita))
               => NovosErros = <<ErroVariavelNaoDeclarada(e.direita.nome)>>
            /\ (/\ e.classe = "ExpressaoUnaria"
                /\ EhIdentificadorNaoDeclarado(e.expressao))
               => NovosErros = <<ErroVariavelNaoDeclarada(e.expressao.nome)>>

C3_SemCascata == [][C3_PassoSemCascata]_vars

-----------------------------------------------------------------------------
(* C4: a call of a function that the function table does not hold appends    *)
(* exactly the 'Função não declarada' error, whatever its arguments, and     *)
(* infers the unknown type.                                                  *)
C4_PassoFuncaoNaoDeclarada ==
    InfereExpressao =>
        LET e == ExpressaoDoPasso
        IN  (e.classe = "ChamadaFuncao" /\ e.nome \notin DOMAIN funcoes)
            => /\ NovosErros = <<ErroFuncaoNaoDeclarada(e.nome)>>
               /\ Inferido(e).tipo = None

C4_FuncaoNaoDeclarada == [][C4_PassoFuncaoNaoDeclarada]_vars

\* g(a, b) as the last statement, g not declared, both arguments literals or
\* declared variables: one error
C4_Witness ==
    /\ PrimeiraAnaliseConcluida
    /\ ast # Nulo
    /\ LET c == ast.comandos[Len(ast.comandos)]
       IN  /\ c.classe = "ChamadaFuncao"
           /\ c.nome \notin DOMAIN funcoes
           /\ Len(c.argumentos) >= 2
           /\ \A i \in 1..Len(c.argumentos) :
                  ~EhIdentificadorNaoDeclarado(c.argumentos[i])
           /\ erros = <<ErroFuncaoNaoDeclarada(c.nome)>>

-----------------------------------------------------------------------------
(* C5: for a binary expression with an operator of + - * / : when both       *)
(* operands infer to inteiro or flutuante the result is flutuante if one of  *)
(* them is flutuante and inteiro otherwise, and the operator appends no      *)
(* error; when an operand infers to anything else the operator appends one   *)
(* 'requer operandos numéricos' error and the result is unknown.             *)
C5_PassoAritmetica ==
    InfereExpressao =>
        LET e == ExpressaoDoPasso
        IN  (e.classe = "ExpressaoBinaria" /\ e.operador \in OperadoresAritmeticos)
            => LET esq == Inferido(e.esquerda)
                   dir == Inferido(e.direita)
               IN  IF esq.tipo \in {"inteiro", "flutuante"}
                      /\ dir.tipo \in {"inteiro", "flutuante"}
                   THEN /\ Inferido(e).tipo =
                              (IF "flutuante" \in {esq.tipo, dir.tipo}
                               THEN "flutuante" ELSE "inteiro")
                        /\ NovosErros = esq.erros \o dir.erros
                   ELSE /\ Inferido(e).tipo = None
                        /\ NovosErros = esq.erros \o dir.erros
                                        \o <<ErroOperandosNumericos(e.operador)>>

C5_Aritmetica == [][C5_PassoAritmetica]_vars

\* escreva(x * y) with x inteiro and y flutuante: flutuante, no error
C5_Witness ==
    /\ PrimeiraAnaliseConcluida
    /\ ast # Nulo
    /\ LET c == ast.comandos[Len(ast.comandos)]
       IN  /\ c.classe = "ComandoEscreva"
           /\ c.expressao.classe = "ExpressaoBinaria"
           /\ c.expressao.operador \in OperadoresAritmeticos
           /\ Inferido(c.expressao.esquerda).tipo = "inteiro"
           /\ Inferido(c.expressao.direita).tipo = "flutuante"
           /\ Inferido(c.expressao).tipo = "flutuante"
           /\ erros = <<>>

-----------------------------------------------------------------------------
(* C6: for a call of a declared function with atoms as arguments: another    *)
(* number of arguments than parameters appends the count error (and nothing  *)
(* else; the type is unknown); with the same number, argument i appends its  *)
(* type error exactly when its inferred type is not the type of parameter i  *)
(* (inteiro for flutuante included), the call appends nothing else, and the  *)
(* inferred type is the declared return type.                                *)
C6_PassoChamada ==
    InfereExpressao =>
        LET e == ExpressaoDoPasso
        IN  (/\ e.classe = "ChamadaFuncao"
             /\ e.nome \in DOMAIN funcoes
             /\ \A i \in 1..Len(e.argumentos) : EhAtomo(e.argumentos[i]))
            => LET assinatura == funcoes[e.nome]
                   n == Len(e.argumentos)
                   tipo_arg(i) == Inferido(e.argumentos[i]).tipo
                   difere(i) == tipo_arg(i) # assinatura.tipos_params[i]
                   erro_arg(i) == ErroArgumento(i, e.nome, assinatura.tipos_params[i],
                                                tipo_arg(i))
               IN  IF n # Len(assinatura.tipos_params)
                   THEN /\ NovosErros = <<ErroNumeroArgumentos(e.nome,
                                             Len(assinatura.tipos_params), n)>>
                        /\ Inferido(e).tipo = None
                   ELSE /\ Inferido(e).tipo = assinatura.tipo_retorno
                        /\ \A i \in 1..n :
                              Conta(NovosErros, erro_arg(i)) = (IF difere(i) THEN 1 ELSE 0)
                        /\ Len(NovosErros) =
                              Cardinality({i \in 1..n : difere(i)})
                              + Cardinality({i \in 1..n :
                                    EhIdentificadorNaoDeclarado(e.argumentos[i])})

C6_Chamada == [][C6_PassoChamada]_vars

\* f declared with a flutuante parameter and called with an inteiro argument:
\* the argument error, no promotion
C6_Witness ==
    /\ PrimeiraAnaliseConcluida
    /\ "f" \in DOMAIN funcoes
    /\ funcoes["f"].tipos_params = <<"flutuante">>
    /\ erros = <<ErroArgumento(1, "f", "flutuante", "inteiro")>>

-----------------------------------------------------------------------------
(* C7: a declaration whose initializer infers a known type that is not the   *)
(* declared one appends one initialization error naming the two types, as    *)
(* the last error of the step (the only one when the name is new and the     *)
(* initializer a literal); the name, when the innermost frame did not hold   *)
(* it, is inserted there with the declared type; and the statements that     *)
(* follow stay on the work stack.  An assignment to a declared variable      *)
(* whose expression infers a known type that is not the stored one appends   *)
(* one assignment error in the same way and leaves the table alone.          *)
C7_PassoInicializacao ==
    (Visitando("DeclaracaoVariavel") /\ Topo.valor_inicial # Nulo) =>
        LET no == Topo
            init_tipo == InferirTipo(no.valor_inicial, tabela_simbolos', funcoes).tipo
            erro == ErroInicializacao(no.nome, no.tipo, init_tipo)
        IN  (init_tipo # None /\ init_tipo # no.tipo) =>
                /\ NovosErros # <<>>
                /\ NovosErros[Len(NovosErros)] = erro
                /\ \A i \in 1..Len(NovosErros) :
                       NovosErros[i].msg = erro.msg => i = Len(NovosErros)
                /\ (no.nome \notin DOMAIN EscopoAtual
                        /\ no.valor_inicial.classe = "Literal")
                   => NovosErros = <<erro>>
                /\ no.nome \notin DOMAIN EscopoAtual =>
                       /\ no.nome \in DOMAIN tabela_simbolos'[Len(tabela_simbolos')]
                       /\ tabela_simbolos'[Len(tabela_simbolos')][no.nome].tipo = no.tipo
                /\ pilha' = Tail(pilha)

C7_PassoAtribuicao ==
    (Visitando("Atribuicao") /\ ~NaoDeclarado(Topo.nome)) =>
        LET no == Topo
            var_tipo == BuscarVariavel(tabela_simbolos, no.nome).info.tipo
            expr_tipo == Inferido(no.expressao).tipo
            erro == ErroAtribuicao(no.nome, var_tipo, expr_tipo)
        IN  (expr_tipo # None /\ expr_tipo # var_tipo) =>
                /\ NovosErros # <<>>
                /\ NovosErros[Len(NovosErros)] = erro
                /\ \A i \in 1..Len(NovosErros) :
                       NovosErros[i].msg = erro.msg => i = Len(NovosErros)
                /\ no.expressao.classe = "Literal" => NovosErros = <<erro>>
                /\ tabela_simbolos' = tabela_simbolos
                /\ pilha' = Tail(pilha)

C7_TipoDiferente == [][C7_PassoInicializacao /\ C7_PassoAtribuicao]_vars

\* `cadeia x = 5; cadeia x;`: the initialization error, then the error of
\* the statement that follows, which finds x declared as cadeia
C7_Witness ==
    /\ PrimeiraAnaliseConcluida
    /\ ast # Nulo
    /\ ast.comandos = <<DeclaracaoVariavel("cadeia", "x", <<>>, LiteralDe("inteiro")),
                        Declaracao("cadeia", "x")>>
    /\ erros = <<ErroInicializacao("x", "cadeia", "inteiro"),
                 ErroVariavelJaDeclarada("x")>>
    /\ EscopoAtual["x"].tipo = "cadeia"

-----------------------------------------------------------------------------
(* C8: the condition of a se, an enquanto or a para (when it has one)        *)
(* appends the condition error, as the last error of the step, exactly when  *)
(* its inferred type is not logico; and with or without the error every      *)
(* statement of the then-block, the else-block and the loop body is on the   *)
(* work stack after the step, in order, to be visited next.                  *)
C8_PassoSe ==
    Visitando("ComandoSe") =>
        LET no == Topo
            cond == Inferido(no.condicao)
            nv == Len(no.bloco_verdadeiro)
            nf == Len(no.bloco_falso)
        IN  /\ NovosErros = cond.erros \o (IF cond.tipo # "logico"
                                           THEN <<ErroCondicao("se")>> ELSE <<>>)
            /\ SubSeq(pilha', 1, nv) = no.bloco_verdadeiro
            /\ nf > 0 => SubSeq(pilha', nv + 3, nv + 2 + nf) = no.bloco_falso

C8_PassoEnquanto ==
    Visitando("ComandoEnquanto") =>
        LET no == Topo
            cond == Inferido(no.condicao)
        IN  /\ NovosErros = cond.erros \o (IF cond.tipo # "logico"
                                           THEN <<ErroCondicao("enquanto")>> ELSE <<>>)
            /\ SubSeq(pilha', 1, Len(no.bloco)) = no.bloco

\* para: the handler pushes the body with the condition check ahead of it,
\* and the condition check leaves what follows it on the stack
C8_PassoPara ==
    /\ Visitando("ComandoPara") =>
           LET no == Topo
               antes == Len(SelectSeq(<<no.inicializacao, no.condicao, no.incremento>>,
                                      LAMBDA n : n # Nulo))
           IN  /\ SubSeq(pilha', antes + 1, antes + Len(no.bloco)) = no.bloco
               /\ no.condicao # Nulo =>
                      \E i \in 1..antes : pilha'[i] = RestoCondicaoPara(no.condicao)
    /\ Visitando("condicao_para") =>
           LET cond == Inferido(Topo.condicao)
           IN  /\ NovosErros = cond.erros \o (IF cond.tipo # "logico"
                                              THEN <<ErroCondicao("para")>> ELSE <<>>)
               /\ pilha' = Tail(pilha)

\* a statement at the head of the work stack is visited by the next step,
\* and no step drops a statement that is not at the head
C8_PassoVisita ==
    pilha # <<>> =>
        \E k \in 0..Len(pilha') :
            /\ Len(pilha') - k = Len(pilha) - 1
            /\ SubSeq(pilha', k + 1, Len(pilha')) = Tail(pilha)

C8_Condicao == [][C8_PassoSe /\ C8_PassoEnquanto /\ C8_PassoPara /\ C8_PassoVisita]_vars

\* `inteiro x; se (x) { logico x; x = 5; } ...`: the condition error, then
\* the error of the assignment inside the block
C8_Witness ==
    /\ PrimeiraAnaliseConcluida
    /\ ast # Nulo
    /\ Len(ast.comandos) >= 2
    /\ ast.comandos[2].classe = "ComandoSe"
    /\ Len(erros) >= 2
    /\ erros[1] = ErroCondicao("se")
    /\ erros[2] = ErroAtribuicao("x", "logico", "inteiro")

-----------------------------------------------------------------------------
(* C9: a second analisar() on the same AST leaves the error list of the      *)
(* first one.  The list only grows, so this is: no step of a call after the  *)
(* first appends an error.  The frames, the function table and the list of   *)
(* the first call are still there in the second: the formula is violated.    *)
C9_Idempotencia == [][chamadas >= 2 => erros' = erros]_vars

-----------------------------------------------------------------------------
(* C10: every reference to a name that no frame holds is reported.  For the  *)
(* steps that visit an assignment, an escreva, a leia or an expression       *)
(* statement, and every name no frame holds: the step appends at least as    *)
(* many 'não declarada' errors for the name as the statement has             *)
(* occurrences of it (identifiers at any depth, the assignment target, the   *)
(* leia target).  The code skips the expression of an assignment to an       *)
(* undeclared target and the arguments of a call it rejects: the formula is  *)
(* violated.                                                                 *)
RECURSIVE Ocorrencias(_, _)
RECURSIVE OcorrenciasNaLista(_, _)

OcorrenciasNaLista(nos, nome) ==
    IF nos = <<>> THEN 0
    ELSE Ocorrencias(Head(nos), nome) + OcorrenciasNaLista(Tail(nos), nome)

Ocorrencias(no, nome) ==
    IF no.classe = "Identificador" THEN (IF no.nome = nome THEN 1 ELSE 0)
    ELSE IF no.classe = "ExpressaoBinaria"
        THEN Ocorrencias(no.esquerda, nome) + Ocorrencias(no.direita, nome)
    ELSE IF no.classe = "ExpressaoUnaria" THEN Ocorrencias(no.expressao, nome)
    ELSE IF no.classe = "ChamadaFuncao" THEN OcorrenciasNaLista(no.argumentos, nome)
    ELSE IF no.classe = "ComandoEscreva" THEN Ocorrencias(no.expressao, nome)
    ELSE IF no.classe = "ComandoLeia" THEN (IF no.variavel = nome THEN 1 ELSE 0)
    ELSE IF no.classe = "Atribuicao"
        THEN (IF no.nome = nome THEN 1 ELSE 0) + Ocorrencias(no.expressao, nome)
    ELSE 0

C10_PassoTodasAsReferencias ==
    (pilha # <<>>
     /\ Topo.classe \in {"Atribuicao", "ComandoEscreva", "ComandoLeia",
                         "ChamadaFuncao", "ExpressaoBinaria", "ExpressaoUnaria"})
    => \A nome \in NomesUsados :
           NaoDeclarado(nome) =>
               Conta(NovosErros, ErroVariavelNaoDeclarada(nome)) >= Ocorrencias(Topo, nome)

C10_TodasAsReferencias == [][C10_PassoTodasAsReferencias]_vars

-----------------------------------------------------------------------------
(* C11: a para pushes one frame, and its initialization, condition,          *)
(* increment and body are all visited in that frame: the step pushes one     *)
(* empty frame and puts the four parts on the work stack with no frame       *)
(* pushed or popped between them and one sair_escopo after the body; the     *)
(* stack of frames always has one frame per pending sair_escopo.  So for a   *)
(* para whose initialization declares a name n that nothing outside          *)
(* declares: n is never 'não declarada' in the condition, the increment or   *)
(* the body, a declaration of n directly in the body is a redeclaration in   *)
(* the same frame, and every reference to n after the loop is 'não           *)
(* declarada'.                                                               *)
EhMarcaDeEscopo(no) == no.classe \in {"sair_escopo", "entrar_escopo"}

ContaMarcas(classe) == Cardinality({i \in 1..Len(pilha) : pilha[i].classe = classe})

\* one frame for the global scope and one per block that is still open
C11_QuadrosAbertos ==
    Len(tabela_simbolos) + ContaMarcas("entrar_escopo") = 1 + ContaMarcas("sair_escopo")

C11_PassoPara ==
    /\ Visitando("ComandoPara") =>
           LET no == Topo
               partes == SemNulos(<<no.inicializacao>>)
                         \o (IF no.condicao # Nulo
                             THEN <<RestoCondicaoPara(no.condicao)>> ELSE <<>>)
                         \o SemNulos(<<no.incremento>>)
                         \o no.bloco
           IN  /\ tabela_simbolos' = Append(tabela_simbolos, EscopoVazio)
               /\ pilha' = partes \o <<RestoSairEscopo>> \o Tail(pilha)
    /\ Visitando("condicao_para") => tabela_simbolos' = tabela_simbolos
    /\ (pilha # <<>> /\ Topo.classe \in {"ExpressaoUnaria", "Atribuicao"})
           => tabela_simbolos' = tabela_simbolos
    /\ Visitando("DeclaracaoVariavel") => Len(tabela_simbolos') = Len(tabela_simbolos)

\* the programs `para (tipo n = ...; c; i) { b } s` with n declared nowhere else
ParaQueDeclara(n) ==
    /\ ast # Nulo
    /\ Len(ast.comandos) = 2
    /\ ast.comandos[1].classe = "ComandoPara"
    /\ ast.comandos[1].inicializacao.classe = "DeclaracaoVariavel"
    /\ ast.comandos[1].inicializacao.nome = n
    /\ ast.comandos[2] # Declaracao("cadeia", n)

C11_AposOPara ==
    \A n \in Nomes :
        (PrimeiraAnaliseConcluida /\ ParaQueDeclara(n)) =>
            LET para == ast.comandos[1]
            IN  /\ Conta(erros, ErroVariavelNaoDeclarada(n))
                       = Ocorrencias(ast.comandos[2], n)
                /\ Contem(erros, ErroVariavelJaDeclarada(n))
                       <=> \E i \in 1..Len(para.bloco) :
                               /\ para.bloco[i].classe = "DeclaracaoVariavel"
                               /\ para.bloco[i].nome = n

C11_EscopoDoPara == [](C11_QuadrosAbertos /\ C11_AposOPara) /\ [][C11_PassoPara]_vars

\* `para (inteiro x = 5; ...) { logico x; escreva(x); } escreva(x);`: the body's
\* declaration meets the x of the initialization in its own frame, the body's
\* reference resolves, the reference after the loop does not
C11_Witness ==
    /\ PrimeiraAnaliseConcluida
    /\ ParaQueDeclara("x")
    /\ ast.comandos[1].bloco = <<Declaracao("logico", "x"),
                                 ComandoEscreva(Identificador("x"))>>
    /\ ast.comandos[2] = ComandoEscreva(Identificador("x"))
    /\ erros = <<ErroVariavelJaDeclarada("x"), ErroVariavelNaoDeclarada("x")>>

-----------------------------------------------------------------------------
(* C12: the function table is global and only grows.  No step removes an     *)
(* entry or changes a signature, leaving a scope included; a declaration of  *)
(* a name the table holds appends 'Função já declarada' and leaves the table *)
(* as it is, a declaration of a new name enters its signature; a call of a   *)
(* name the table holds is never 'não declarada'.  So after the analysis     *)
(* every function declared anywhere in the tree, in a block or in another    *)
(* function's body, is in the table with the signature of its first          *)
(* declaration, and each later declaration of the name left one error.       *)
RECURSIVE DeclaracoesDeFuncao(_)

\* the DeclaracaoFuncao nodes of a list of statements, in the order visited
DeclaracoesDeFuncao(cmds) ==
    IF cmds = <<>> THEN <<>>
    ELSE LET no == Head(cmds)
             dentro ==
                 IF no.classe = "DeclaracaoFuncao"
                     THEN <<no>> \o DeclaracoesDeFuncao(no.corpo)
                 ELSE IF no.classe = "ComandoSe"
                     THEN DeclaracoesDeFuncao(no.bloco_verdadeiro)
                          \o DeclaracoesDeFuncao(no.bloco_falso)
                 ELSE IF no.classe \in {"ComandoEnquanto", "ComandoPara"}
                     THEN DeclaracoesDeFuncao(no.bloco)
                 ELSE <<>>
         IN  dentro \o DeclaracoesDeFuncao(Tail(cmds))

Assinatura(no) ==
    [tipo_retorno |-> no.tipo_retorno,
     tipos_params |-> [i \in 1..Len(no.parametros) |-> no.parametros[i].tipo]]

C12_PassoTabelaCresce ==
    /\ \A f \in DOMAIN funcoes : f \in DOMAIN funcoes' /\ funcoes'[f] = funcoes[f]
    /\ ~Visitando("DeclaracaoFuncao") => funcoes' = funcoes
    /\ Visitando("DeclaracaoFuncao") =>
           IF Topo.nome \in DOMAIN funcoes
           THEN /\ funcoes' = funcoes
                /\ NovosErros # <<>>
                /\ NovosErros[1] = ErroFuncaoJaDeclarada(Topo.nome)
           ELSE /\ DOMAIN funcoes' = DOMAIN funcoes \cup {Topo.nome}
                /\ funcoes'[Topo.nome] = Assinatura(Topo)
                /\ ~Contem(NovosErros, ErroFuncaoJaDeclarada(Topo.nome))
    /\ (InfereExpressao /\ ExpressaoDoPasso.classe = "ChamadaFuncao"
            /\ ExpressaoDoPasso.nome \in DOMAIN funcoes)
       => ~Contem(NovosErros, ErroFuncaoNaoDeclarada(ExpressaoDoPasso.nome))

C12_TabelaAoFim ==
    (PrimeiraAnaliseConcluida /\ ast # Nulo) =>
        LET ds == DeclaracoesDeFuncao(ast.comandos)
        IN  \A i \in 1..Len(ds) :
                LET primeira == CHOOSE j \in 1..Len(ds) :
                                    /\ ds[j].nome = ds[i].nome
                                    /\ \A k \in 1..(j - 1) : ds[k].nome # ds[i].nome
                    vezes == Cardinality({j \in 1..Len(ds) : ds[j].nome = ds[i].nome})
                IN  /\ ds[i].nome \in DOMAIN funcoes
                    /\ funcoes[ds[i].nome] = Assinatura(ds[primeira])
                    /\ Conta(erros, ErroFuncaoJaDeclarada(ds[i].nome)) = vezes - 1

C12_TabelaDeFuncoes == []C12_TabelaAoFim /\ [][C12_PassoTabelaCresce]_vars

\* `se (verdadeiro) { flutuante f(inteiro x) {} } cadeia f() {} f(5);`: the
\* second declaration is refused, and the call after the block matches the
\* signature declared inside it
C12_Witness ==
    /\ PrimeiraAnaliseConcluida
    /\ ast # Nulo
    /\ ast.comandos =
          <<ComandoSe(LiteralDe("logico"),
                      <<DeclaracaoFuncao("flutuante", "f",
                                         <<Parametro("inteiro", "x")>>, <<>>)>>, <<>>),
            DeclaracaoFuncao("cadeia", "f", <<>>, <<>>),
            ChamadaFuncao("f", <<LiteralDe("inteiro")>>)>>
    /\ Len(tabela_simbolos) = 1
    /\ funcoes["f"] = [tipo_retorno |-> "flutuante", tipos_params |-> <<"inteiro">>]
    /\ erros = <<ErroFuncaoJaDeclarada("f")>>

-----------------------------------------------------------------------------
(* Vocabulary of the properties about the generated text *)

\* the lines a step appends
NovasLinhas == SubSeq(codigo', Len(codigo) + 1, Len(codigo'))

\* the first analisar() found no error and gerar() was called right after it
AnaliseSemErros == chamadas = 1 /\ pilha = <<>> /\ erros = <<>>

\* the positions of the lines of codigo that satisfy a test
Posicoes(Teste(_)) == {i \in 1..Len(codigo) : Teste(codigo[i])}

EhArmazenamento(linha) == linha.op \in DiretivasDeArmazenamento

\* an instruction or a code label
EhCodigo(linha) == linha.op \notin DiretivasDeArmazenamento \cup {".data", ".text", ""}

-----------------------------------------------------------------------------
(* C13: when the analysis of an AST records no error, gerar() on that AST    *)
(* raises no KeyError: no lookup of var_map or func_map fails.  The code     *)
(* allocates only the first four parameters of a function, so a body that    *)
(* uses the fifth fails: the formula is violated.                            *)
C13_SemFalhaDeConsulta == AnaliseSemErros => estado_gerador # "falhou"

-----------------------------------------------------------------------------
(* C14: in the text gerar() returns every storage directive is before the    *)
(* .text line, and every instruction and code label of the program's         *)
(* statements is after the main: label and before the exit sequence (the     *)
(* last two lines).  The code appends .text and main: after it has visited   *)
(* the AST: the formula is violated.                                         *)
C14_SecoesDoTexto ==
    estado_gerador = "concluido" =>
        LET n == Len(codigo)
            texto == CHOOSE i \in 1..n : codigo[i] = Diretiva(".text")
        IN  /\ codigo[texto + 1] = Rotulo("main")
            /\ codigo[n - 1] = Linha("li", <<"$v0", "10">>)
            /\ codigo[n] = Linha("syscall", <<>>)
            /\ \A i \in Posicoes(EhArmazenamento) : i < texto
            /\ \A i \in Posicoes(EhCodigo) \ {texto + 1, n - 1, n} :
                   texto + 1 < i /\ i < n - 1

-----------------------------------------------------------------------------
(* Vocabulary of the properties about control flow *)

RECURSIVE ContaNos(_, _)

\* the number of statements of a class in a list of statements, at any depth
ContaNos(cmds, classe) ==
    IF cmds = <<>> THEN 0
    ELSE LET no == Head(cmds)
             dentro ==
                 IF no.classe = "DeclaracaoFuncao" THEN ContaNos(no.corpo, classe)
                 ELSE IF no.classe = "ComandoSe"
                     THEN ContaNos(no.bloco_verdadeiro, classe)
                          + ContaNos(no.bloco_falso, classe)
                 ELSE IF no.classe \in {"ComandoEnquanto", "ComandoPara"}
                     THEN ContaNos(no.bloco, classe)
                 ELSE 0
         IN  (IF no.classe = classe THEN 1 ELSE 0) + dentro
             + ContaNos(Tail(cmds), classe)

\* the program has one statement of the class and no other statement that
\* emits a branch, a jump or a label
SoUm(classe) ==
    /\ ast # Nulo
    /\ ContaNos(ast.comandos, classe) = 1
    /\ \A c \in {"ComandoSe", "ComandoEnquanto", "ComandoPara", "DeclaracaoFuncao"} \ {classe} :
           ContaNos(ast.comandos, c) = 0

EhDesvio(linha) == linha.op = "beq"
EhSalto(linha) == linha.op = "j"
EhRotulo(linha) == linha.op = "rotulo" /\ linha # Rotulo("main")

\* the only position of the set
Unica(posicoes) == CHOOSE i \in posicoes : TRUE

\* the code an expression appends in the current state
CodigoDaExpressao(no) ==
    LET r == GerarExpressao(no, EstadoGerador)
    IN  SubSeq(r.codigo, Len(codigo) + 1, Len(r.codigo))

-----------------------------------------------------------------------------
(* C15: a se is lowered to: the code of the condition, one beq of the        *)
(* condition's register to the false label, the then-block, one j to the end *)
(* label, the false label, the else-block when there is one, the end label;  *)
(* the two labels are distinct.  So the text of a program whose only control *)
(* statement is one se has one beq, one j and two labels, in that order.     *)
C15_PassoSe ==
    (Gerando("ComandoSe") /\ estado_gerador' = "gerando") =>
        LET no == TopoGerador
            cond == GerarExpressao(no.condicao, EstadoGerador)
            label_falso == NovaLabel(label_count)
            label_fim == NovaLabel(label_count + 1)
        IN  /\ label_falso # label_fim
            /\ NovasLinhas = CodigoDaExpressao(no.condicao)
                             \o <<Linha("beq", <<cond.reg, "$zero", label_falso>>)>>
            /\ pilha_gerador' =
                   no.bloco_verdadeiro
                   \o <<RestoEmitir(<<Linha("j", <<label_fim>>), Rotulo(label_falso)>>)>>
                   \o no.bloco_falso
                   \o <<RestoEmitir(<<Rotulo(label_fim)>>)>>
                   \o Tail(pilha_gerador)

\* what is queued after a block is appended as it is when its turn comes
C15_PassoEmitir ==
    Gerando("emitir") =>
        /\ NovasLinhas = TopoGerador.linhas
        /\ pilha_gerador' = Tail(pilha_gerador)

C15_TextoDeUmSe ==
    (estado_gerador = "concluido" /\ SoUm("ComandoSe")) =>
        /\ Cardinality(Posicoes(EhDesvio)) = 1
        /\ Cardinality(Posicoes(EhSalto)) = 1
        /\ Cardinality(Posicoes(EhRotulo)) = 2
        /\ LET desvio == Unica(Posicoes(EhDesvio))
               salto == Unica(Posicoes(EhSalto))
               fim == CHOOSE i \in Posicoes(EhRotulo) :
                          \A j \in Posicoes(EhRotulo) : j <= i
           IN  /\ desvio < salto
               /\ codigo[salto + 1] = Rotulo(codigo[desvio].args[3])
               /\ salto + 1 < fim
               /\ codigo[fim] = Rotulo(codigo[salto].args[1])
               /\ codigo[fim] # codigo[salto + 1]

C15_LoweringDoSe == []C15_TextoDeUmSe /\ [][C15_PassoSe /\ C15_PassoEmitir]_vars

\* `inteiro x; se (x < 5) { escreva(x); } senao { x = 5; }`, generated to the
\* end: the else-block's store sits between the two labels
C15_Witness ==
    /\ estado_gerador = "concluido"
    /\ SoUm("ComandoSe")
    /\ \E i \in 1..Len(ast.comandos) :
           /\ ast.comandos[i].classe = "ComandoSe"
           /\ ast.comandos[i].condicao.classe = "ExpressaoBinaria"
           /\ ast.comandos[i].bloco_verdadeiro # <<>>
           /\ ast.comandos[i].bloco_falso = <<Atribuicao("x", LiteralDe("inteiro"))>>
    /\ \E i \in Posicoes(EhRotulo) :
           /\ codigo[i - 1].op = "j"
           /\ codigo[i + 2].op = "sw"
           /\ codigo[i + 3].op = "rotulo"

-----------------------------------------------------------------------------
(* C16: a para is lowered to: the initialization when there is one, the      *)
(* start label, the code of the condition and one beq to the end label when  *)
(* there is a condition, the body, the increment label, the increment when   *)
(* there is one, one j to the start label, the end label; the three labels   *)
(* are distinct and an absent clause appends nothing.  So the text of a      *)
(* program whose only control statement is one para has three labels and     *)
(* one j, a beq exactly when the para has a condition, in that order.        *)
C16_PassoPara ==
    Gerando("ComandoPara") =>
        LET no == TopoGerador
            label_inicio == NovaLabel(label_count)
            label_incremento == NovaLabel(label_count + 1)
            label_fim == NovaLabel(label_count + 2)
        IN  /\ Cardinality({label_inicio, label_incremento, label_fim}) = 3
            /\ NovasLinhas = <<>>
            /\ pilha_gerador' =
                   (IF no.inicializacao # Nulo THEN <<no.inicializacao>> ELSE <<>>)
                   \o <<RestoCondicaoParaGerador(label_inicio, no.condicao, label_fim)>>
                   \o no.bloco
                   \o <<RestoEmitir(<<Rotulo(label_incremento)>>)>>
                   \o (IF no.incremento # Nulo THEN <<no.incremento>> ELSE <<>>)
                   \o <<RestoEmitir(<<Linha("j", <<label_inicio>>), Rotulo(label_fim)>>)>>
                   \o Tail(pilha_gerador)

C16_PassoCondicao ==
    (Gerando("condicao_para") /\ estado_gerador' = "gerando") =>
        LET m == TopoGerador
        IN  /\ pilha_gerador' = Tail(pilha_gerador)
            /\ IF m.condicao = Nulo
               THEN NovasLinhas = <<Rotulo(m.label_inicio)>>
               ELSE NovasLinhas =
                        <<Rotulo(m.label_inicio)>>
                        \o CodigoDaExpressao(m.condicao)
                        \o <<Linha("beq", <<GerarExpressao(m.condicao, EstadoGerador).reg,
                                            "$zero", m.label_fim>>)>>

C16_TextoDeUmPara ==
    (estado_gerador = "concluido" /\ SoUm("ComandoPara")) =>
        LET para == ast.comandos[CHOOSE i \in 1..Len(ast.comandos) :
                                     ast.comandos[i].classe = "ComandoPara"]
            rotulos == Posicoes(EhRotulo)
            inicio == CHOOSE i \in rotulos : \A j \in rotulos : i <= j
            fim == CHOOSE i \in rotulos : \A j \in rotulos : j <= i
            incremento == Unica(rotulos \ {inicio, fim})
            salto == Unica(Posicoes(EhSalto))
        IN  /\ Cardinality(rotulos) = 3
            /\ Cardinality(Posicoes(EhSalto)) = 1
            /\ Cardinality(Posicoes(EhDesvio)) = (IF para.condicao # Nulo THEN 1 ELSE 0)
            /\ inicio < incremento /\ incremento < salto /\ fim = salto + 1
            /\ codigo[salto] = Linha("j", <<codigo[inicio].args[1]>>)
            /\ para.condicao # Nulo =>
                   LET desvio == Unica(Posicoes(EhDesvio))
                   IN  /\ inicio < desvio /\ desvio < incremento
                       /\ codigo[desvio].args[3] = codigo[fim].args[1]
            /\ para.incremento = Nulo => salto = incremento + 1
            /\ para.incremento # Nulo => salto > incremento + 1
            /\ (para.condicao = Nulo /\ para.bloco = <<>>) => incremento = inicio + 1
            /\ para.inicializacao # Nulo => codigo[inicio - 1].op = "sw"

C16_LoweringDoPara ==
    []C16_TextoDeUmPara /\ [][C16_PassoPara /\ C16_PassoCondicao]_vars

\* `para (inteiro y = 5; y < 5; y++) { escreva(x); }` with x declared,
\* generated to the end
C16_Witness ==
    /\ estado_gerador = "concluido"
    /\ SoUm("ComandoPara")
    /\ \E i \in 1..Len(ast.comandos) :
           /\ ast.comandos[i].classe = "ComandoPara"
           /\ ast.comandos[i].inicializacao # Nulo
           /\ ast.comandos[i].condicao # Nulo
           /\ ast.comandos[i].incremento # Nulo
           /\ ast.comandos[i].bloco # <<>>
    /\ Cardinality(Posicoes(EhDesvio)) = 1
    /\ Cardinality(Posicoes(EhRotulo)) = 3

-----------------------------------------------------------------------------
(* C17: a call with k = min(4, number of arguments) evaluates argument i     *)
(* and moves its register into $a<i>, in index order, then appends jal to    *)
(* the function's label and the move of $v0 into a new temporary; and at     *)
(* the jal no line after the call's own move into $a<i> has written $a<i>    *)
(* again.  The code moves argument i before it evaluates argument i+1, so a  *)
(* call among the later arguments overwrites $a0: the formula is violated.   *)

\* the line writes the register: its first operand, for the instructions
\* that have a destination
EscreveEm(linha, reg) ==
    /\ linha.op \in {"move", "li", "li.s", "la", "lw", "add", "sub", "mul", "div",
                     "slt", "xori", "seq", "sne", "and", "or", "xor", "neg", "addi"}
    /\ linha.args[1] = reg

C17_PassoArgumentos ==
    (/\ estado_gerador = "gerando"
     /\ pilha_gerador # <<>>
     /\ TopoGerador.classe = "ChamadaFuncao"
     /\ estado_gerador' = "gerando")
    => LET no == TopoGerador
           args == Primeiros(no.argumentos)
           jal == Len(NovasLinhas) - 1
           \* the position of the call's own move of argument i
           proprio(i) == Len(GerarArgumentos(SubSeq(args, 1, i), 1, EstadoGerador).codigo)
                         - Len(codigo)
       IN  /\ NovasLinhas[jal] = Linha("jal", <<func_map[no.nome]>>)
           /\ NovasLinhas[jal + 1].op = "move"
           /\ NovasLinhas[jal + 1].args[2] = "$v0"
           /\ \A i \in 1..Len(args) :
                  /\ NovasLinhas[proprio(i)].op = "move"
                  /\ NovasLinhas[proprio(i)].args[1] = RegistradorArgumento(i - 1)
                  /\ \A j \in 1..(i - 1) : proprio(j) < proprio(i)
                  /\ \A p \in (proprio(i) + 1)..(jal - 1) :
                         ~EscreveEm(NovasLinhas[p], RegistradorArgumento(i - 1))

C17_ArgumentosDaChamada == [][C17_PassoArgumentos]_vars

-----------------------------------------------------------------------------
(* C18: the driver goes on to a stage only when the stage before it left no  *)
(* error: analisar() of the semantic analyser is called only when the        *)
(* parser's error list is empty.  The driver calls it outside the `if not    *)
(* parser.tem_erros()` block: the formula is violated.                       *)
C18_EtapasCondicionadas == [][chamadas' = chamadas + 1 => erros_sintaticos = <<>>]_vars

-----------------------------------------------------------------------------
(* C19: the storage reserved for an array comes from its declared length:    *)
(* two arrays declared with different lengths get different amounts.         *)
(* alocar_variavel is not given the length and reserves 40 bytes for every   *)
(* array: the formula is violated.                                           *)

\* the amount on the .space line of a name
Reservado(nome) ==
    codigo[CHOOSE i \in 1..Len(codigo) :
               codigo[i].op = ".space" /\ codigo[i].args[1] = nome].args[2]

C19_TamanhoDoArranjo ==
    (estado_gerador = "concluido" /\ ast # Nulo) =>
        \A i, j \in 1..Len(ast.comandos) :
            LET a == ast.comandos[i]
                b == ast.comandos[j]
            IN  (/\ a.classe = "DeclaracaoVariavel" /\ a.tamanho_array # <<>>
                 /\ b.classe = "DeclaracaoVariavel" /\ b.tamanho_array # <<>>
                 /\ a.nome # b.nome
                 /\ a.tamanho_array # b.tamanho_array)
                => Reservado(a.nome) # Reservado(b.nome)

-----------------------------------------------------------------------------
(* C20: during gerar() no step removes a key of var_map or func_map or       *)
(* changes its value; a step appends a storage line for a name exactly when  *)
(* it puts the name into var_map, so the text never holds two storage lines  *)
(* of one name; and the line is the one of the first declaration visited (or *)
(* of the parameter, among a function's first four, that brought the name):  *)
(* a later declaration of the name with another type appends none.           *)
C20_PassoMapas ==
    /\ \A n \in DOMAIN var_map : n \in DOMAIN var_map' /\ var_map'[n] = var_map[n]
    /\ \A f \in DOMAIN func_map : f \in DOMAIN func_map' /\ func_map'[f] = func_map[f]
    /\ \A n \in DOMAIN var_map' \ DOMAIN var_map :
           Cardinality({i \in 1..Len(NovasLinhas) :
                            EhArmazenamento(NovasLinhas[i]) /\ NovasLinhas[i].args[1] = n}) = 1
    /\ \A i \in 1..Len(NovasLinhas) :
           EhArmazenamento(NovasLinhas[i]) =>
               NovasLinhas[i].args[1] \in DOMAIN var_map' \ DOMAIN var_map

C20_PassoPrimeiraDeclaracao ==
    Gerando("DeclaracaoVariavel") =>
        LET no == TopoGerador
        IN  IF no.nome \in DOMAIN var_map
            THEN /\ var_map' = var_map
                 /\ \A i \in 1..Len(NovasLinhas) : ~EhArmazenamento(NovasLinhas[i])
            ELSE /\ NovasLinhas # <<>>
                 /\ NovasLinhas[1] = LinhaDeAlocacao(no.nome, no.tipo, no.tamanho_array # <<>>)

C20_UmaLinhaPorNome ==
    /\ \A i, j \in Posicoes(EhArmazenamento) :
           codigo[i].args[1] = codigo[j].args[1] => i = j
    /\ {codigo[i].args[1] : i \in Posicoes(EhArmazenamento)} = DOMAIN var_map

C20_MapasDoGerador ==
    []C20_UmaLinhaPorNome /\ [][C20_PassoMapas /\ C20_PassoPrimeiraDeclaracao]_vars

\* `inteiro x; ...; enquanto (verdadeiro) { cadeia x; }`: x keeps the .word
\* line of its first declaration
C20_Witness ==
    /\ estado_gerador = "concluido"
    /\ ast # Nulo
    /\ ast.comandos[1] = Declaracao("inteiro", "x")
    /\ ast.comandos[Len(ast.comandos)] =
           ComandoEnquanto(LiteralDe("logico"), <<Declaracao("cadeia", "x")>>)
    /\ Cardinality(Posicoes(EhArmazenamento)) = 1
    /\ codigo[3] = Armazenamento("x", ".word", "0")


-----------------------------------------------------------------------------
(* C21: nova_label never returns the same name twice: the names of distinct  *)
(* values of label_count are distinct and label_count never decreases.  So   *)
(* in the text, at every moment of gerar(), each control-flow label is       *)
(* defined at most once, and in the text gerar() returns the target of every *)
(* beq and every j is a control-flow label defined exactly once.             *)

\* the names nova_label has returned
RotulosDeControle == {NovaLabel(i) : i \in 0..(label_count - 1)}

\* the positions where a label is defined
Definicoes(label) == {p \in 1..Len(codigo) : codigo[p] = Rotulo(label)}

\* the targets of the branches and jumps of the text
AlvosDeControle ==
    {codigo[p].args[3] : p \in Posicoes(EhDesvio)}
    \cup {codigo[p].args[1] : p \in Posicoes(EhSalto)}

C21_NomesDistintos ==
    \A i, j \in 0..label_count : i # j => NovaLabel(i) # NovaLabel(j)

C21_DefinidoUmaVez ==
    /\ \A l \in RotulosDeControle : Cardinality(Definicoes(l)) <= 1
    /\ estado_gerador = "concluido" =>
           \A l \in AlvosDeControle :
               l \in RotulosDeControle /\ Cardinality(Definicoes(l)) = 1

C21_RotulosUnicos ==
    [](C21_NomesDistintos /\ C21_DefinidoUmaVez)
    /\ [][label_count' >= label_count]_vars

\* gerar() returned the text of two control statements in sequence with
\* control statements nested in them: at least six labels, all of them
\* defined, and branches and jumps to them
C21_Witness ==
    /\ estado_gerador = "concluido"
    /\ ast \in ProgramasDoisControles
    /\ label_count >= 6
    /\ \A l \in RotulosDeControle : Cardinality(Definicoes(l)) = 1
    /\ Cardinality(AlvosDeControle) >= 6

-----------------------------------------------------------------------------
(* C22: when the analysis of an AST records no error, no label name is       *)
(* defined twice in the text gerar() returns, counting together the storage  *)
(* labels, the function labels, the control-flow labels and main.  The       *)
(* analyser accepts a variable and a function of the same name, and a        *)
(* function named main, and the generator writes one label for each: the     *)
(* formula is violated.                                                      *)

\* the line defines a label: "<label>:" or "<label>: <directive> <value>"
DefineRotulo(linha) == linha.op = "rotulo" \/ EhArmazenamento(linha)

C22_NomesDeRotuloDistintos ==
    (AnaliseSemErros /\ estado_gerador = "concluido") =>
        \A p, q \in Posicoes(DefineRotulo) :
            p # q => codigo[p].args[1] # codigo[q].args[1]

-----------------------------------------------------------------------------
(* Vocabulary of the properties about the temporaries *)

\* the expression the next step of gerar() evaluates, None when it evaluates
\* none
ExpressaoGerada ==
    IF estado_gerador # "gerando" \/ pilha_gerador = <<>> THEN Nulo
    ELSE LET no == TopoGerador
         IN  IF no.classe = "DeclaracaoVariavel" THEN no.valor_inicial
             ELSE IF no.classe \in {"Atribuicao", "ComandoEscreva"} THEN no.expressao
             ELSE IF no.classe \in {"ComandoSe", "ComandoEnquanto", "condicao_para"}
                 THEN no.condicao
             ELSE IF no.classe \in {"ExpressaoBinaria", "ExpressaoUnaria", "ChamadaFuncao"}
                 THEN no
             ELSE Nulo

\* the generator state in which that expression is evaluated
EstadoAntesDaExpressao ==
    IF Gerando("DeclaracaoVariavel")
    THEN AlocarVariavel(EstadoGerador, TopoGerador.nome, TopoGerador.tipo,
                        TopoGerador.tamanho_array # <<>>)
    ELSE EstadoGerador

\* the registers novo_temp returns while the generator goes from state g to
\* state h
Entregues(g, h) == {NovoTemp(k) : k \in g.temp_count..(h.temp_count - 1)}

RECURSIVE EsquerdoPreservado(_, _)
RECURSIVE EsquerdoPreservadoNosArgumentos(_, _, _)

EsquerdoPreservadoNosArgumentos(argumentos, i, g) ==
    IF i > Len(argumentos) THEN TRUE
    ELSE /\ EsquerdoPreservado(argumentos[i], g)
         /\ EsquerdoPreservadoNosArgumentos(argumentos, i + 1,
                GerarArgumentos(SubSeq(argumentos, 1, i), i, g))

\* in every ExpressaoBinaria of the expression, evaluated from state g, the
\* register of the left operand is not returned by novo_temp during the
\* evaluation of the right operand
EsquerdoPreservado(no, g) ==
    IF no.classe = "ExpressaoBinaria" THEN
        LET esq == GerarExpressao(no.esquerda, g)
            dir == GerarExpressao(no.direita, esq)
        IN  \/ dir.falha
            \/ /\ esq.reg \notin Entregues(esq, dir)
               /\ EsquerdoPreservado(no.esquerda, g)
               /\ EsquerdoPreservado(no.direita, esq)
    ELSE IF no.classe = "ExpressaoUnaria" THEN EsquerdoPreservado(no.expressao, g)
    ELSE IF no.classe = "ChamadaFuncao"
        THEN EsquerdoPreservadoNosArgumentos(Primeiros(no.argumentos), 1, g)
    ELSE TRUE

-----------------------------------------------------------------------------
(* C23: novo_temp hands the temporaries out round-robin, call k (from 0)     *)
(* returning $t<k mod 10>, so the register an expression returns is the one  *)
(* of the last call; and in every ExpressaoBinaria the register of the left  *)
(* operand is not handed out again while the right operand is evaluated.     *)
(* A right operand that takes ten temporaries or more receives the left      *)
(* operand's register again: the formula is violated.                        *)
C23_RodizioDeTemporarios ==
    (ExpressaoGerada # Nulo) =>
        LET g == EstadoAntesDaExpressao
            r == GerarExpressao(ExpressaoGerada, g)
        IN  ~r.falha =>
                /\ r.reg = "$t" \o ToString((r.temp_count - 1) % 10)
                /\ Entregues(g, r) \subseteq
                       {"$t0", "$t1", "$t2", "$t3", "$t4", "$t5", "$t6", "$t7", "$t8", "$t9"}

C23_EsquerdoPreservado ==
    (ExpressaoGerada # Nulo) =>
        EsquerdoPreservado(ExpressaoGerada, EstadoAntesDaExpressao)

C23_Temporarios == C23_RodizioDeTemporarios /\ C23_EsquerdoPreservado

-----------------------------------------------------------------------------
(* C24: the stack of frames is stack-disciplined.  It always holds the       *)
(* global frame; the visit of a statement leaves on the work stack, above    *)
(* what was there, parts that push and pop the same number of frames as the  *)
(* step itself pushed, so when the statement has been visited the depth is   *)
(* the depth before it, whatever errors the visit recorded; a sair_escopo    *)
(* that ends a block always pops a frame; and when analisar() has returned   *)
(* the depth is 1.                                                           *)

\* the frames the nodes of a list push less the frames they pop, counting the
\* entrar_escopo and sair_escopo that are pending in it
SaldoDeMarcas(nos) ==
    Cardinality({i \in 1..Len(nos) : nos[i].classe = "entrar_escopo"})
    - Cardinality({i \in 1..Len(nos) : nos[i].classe = "sair_escopo"})

C24_PassoBalanceado ==
    pilha # <<>> =>
        LET k == Len(pilha') - Len(pilha) + 1
            novos == SubSeq(pilha', 1, k)
        IN  /\ k >= 0
            /\ SubSeq(pilha', k + 1, Len(pilha')) = Tail(pilha)
            /\ IF Topo.classe = "sair_escopo"
               THEN Len(tabela_simbolos) > 1
                    /\ Len(tabela_simbolos') = Len(tabela_simbolos) - 1
               ELSE IF Topo.classe = "entrar_escopo"
               THEN Len(tabela_simbolos') = Len(tabela_simbolos) + 1
               ELSE Len(tabela_simbolos') + SaldoDeMarcas(novos) = Len(tabela_simbolos)
            /\ SubSeq(tabela_simbolos', 1, Len(tabela_simbolos) - 1)
                   = SubSeq(tabela_simbolos, 1, Len(tabela_simbolos) - 1)

C24_Profundidade ==
    /\ Len(tabela_simbolos) >= 1
    /\ Len(tabela_simbolos) + SaldoDeMarcas(pilha) = 1
    /\ pilha = <<>> => Len(tabela_simbolos) = 1

C24_DisciplinaDePilha == []C24_Profundidade /\ [][C24_PassoBalanceado]_vars

\* analisar() has returned from a program with a block nested in a block,
\* errors recorded, and the depth is 1
C24_Witness ==
    /\ chamadas >= 1
    /\ pilha = <<>>
    /\ erros # <<>>
    /\ Len(tabela_simbolos) = 1
    /\ ast # Nulo
    /\ \E i \in 1..Len(ast.comandos) :
           LET no == ast.comandos[i]
           IN  /\ no.classe = "ComandoSe"
               /\ no.bloco_falso # <<>>
               /\ no.bloco_falso[1].classe = "ComandoSe"
               /\ no.bloco_falso[1].bloco_verdadeiro # <<>>
=============================================================================
